---- MODULE Spec2Model ----
(***************************************************************************)
(* Model of src/lib/fs_watch.py: the FileChangeWaiter facade, the          *)
(* InotifyWaiter it drives, the AdaptivePollWaiter fallback, the two       *)
(* inotify backends, and the part of the Linux inotify facility and of the *)
(* file system the code talks to.                                          *)
(***************************************************************************)
EXTENDS Integers, Sequences, FiniteSets, TLC

(***************************************************************************)
(* Bounds of the model.                                                    *)
(***************************************************************************)
\* watch descriptors the inotify instance hands out before add_watch fails
MaxWd == 3
\* events the inotify instance queues before it reports IN_Q_OVERFLOW
MaxQueue == 2
\* records in one buffer returned by os.read
MaxRecords == 3

(***************************************************************************)
(* Paths.  One directory "a" that always exists and two children of it.    *)
(* "" is the empty path a caller may pass among the paths.                 *)
(***************************************************************************)
Root == "/"
Dirs == {"a"}
Children == {"a/x", "a/y"}
AllPaths == Dirs \cup Children

\* Path(p).parent
Parent(p) == IF p \in Children THEN "a" ELSE Root

\* Path(p).name
Name(p) == CASE p = "a/x" -> "x" [] p = "a/y" -> "y" [] OTHER -> p

\* Path(p).exists()
Exists(fsys, p) == p = Root \/ p \in Dirs \/ (p \in Children /\ fsys[p] # "none")

\* Path(p).is_dir()
IsDir(fsys, p) == p = Root \/ p \in Dirs

(***************************************************************************)
(* linux/inotify.h masks of InotifyWaiter.  A mask is the set of its bits, *)
(* `|` is union and `&` is intersection.                                   *)
(***************************************************************************)
MASK_MODIFY == {"MODIFY"}
MASK_ATTRIB == {"ATTRIB"}
MASK_CLOSE_WRITE == {"CLOSE_WRITE"}
MASK_MOVED_TO == {"MOVED_TO"}
MASK_CREATE == {"CREATE"}
MASK_DELETE == {"DELETE"}
MASK_MOVE_SELF == {"MOVE_SELF"}
MASK_DELETE_SELF == {"DELETE_SELF"}
MASK_Q_OVERFLOW == {"Q_OVERFLOW"}
\* IN_IGNORED: sent by the kernel when a watch goes away; the code names no
\* constant for it and treats it like any other event
MASK_IGNORED == {"IGNORED"}

FILE_MASK == MASK_MODIFY \cup MASK_ATTRIB \cup MASK_CLOSE_WRITE \cup MASK_MOVE_SELF \cup MASK_DELETE_SELF
DIR_MASK == MASK_MOVED_TO \cup MASK_CREATE \cup MASK_DELETE \cup MASK_CLOSE_WRITE \cup MASK_ATTRIB

\* InotifyEvent(wd, mask, cookie, name); the cookie is never read
InotifyEvent(wd, mask, name) == [wd |-> wd, mask |-> mask, name |-> name]

\* a local variable: the value of e, computed once, under the name the
\* operator B gives it
Bind(e, B(_)) == CHOOSE v \in {B(r) : r \in {e}} : TRUE

(***************************************************************************)
(* The inotify instance behind a backend.  k.watches is the set of live    *)
(* kernel watches [wd, ino, mask]: ino is the watched object, a directory  *)
(* or the file now at a path, or "~" for a file that was moved away from   *)
(* its path.  k.queue is the event queue, k.next the next descriptor.      *)
(* k.other says what the process has done with the number of the          *)
(* instance's file descriptor after its close: "none" nothing, "open" it   *)
(* is the descriptor of another open file, "closed" that file was closed.  *)
(***************************************************************************)
Stale == "~"

NoKernel == [open |-> FALSE, watches |-> {}, queue |-> <<>>, next |-> 1, other |-> "none"]

NewKernel == [open |-> TRUE, watches |-> {}, queue |-> <<>>, next |-> 1, other |-> "none"]

OverflowEvent == InotifyEvent(-1, MASK_Q_OVERFLOW, "")

\* the kernel queues one event: a full queue takes one overflow event and
\* drops the rest; an event equal to the last queued one is merged into it
Push(q, ev) ==
    IF Len(q) > 0 /\ q[Len(q)] = OverflowEvent THEN q
    ELSE IF Len(q) >= MaxQueue THEN Append(q, OverflowEvent)
    ELSE IF Len(q) > 0 /\ q[Len(q)] = ev THEN q
    ELSE Append(q, ev)

RECURSIVE PushAll(_, _)
PushAll(q, evs) ==
    IF evs = <<>> THEN q
    ELSE Bind(Push(q, Head(evs)), LAMBDA q1 : PushAll(q1, Tail(evs)))

\* the set S of watch descriptors as an ascending sequence
Ascending(S) == SelectSeq([i \in 1..MaxWd |-> i], LAMBDA i : i \in S)

\* the events one file-system event `bit` on object ino makes: one per live
\* watch on ino that subscribes to the bit, in descriptor order
EventsFor(k, ino, bit, name) ==
    Bind(Ascending({x.wd : x \in {y \in k.watches : y.ino = ino /\ bit \in y.mask}}),
         LAMBDA ws : [i \in 1..Len(ws) |-> InotifyEvent(ws[i], {bit}, name)])

\* IN_IGNORED for every live watch on ino
IgnoredFor(k, ino) ==
    Bind(Ascending({x.wd : x \in {y \in k.watches : y.ino = ino}}),
         LAMBDA ws : [i \in 1..Len(ws) |-> InotifyEvent(ws[i], MASK_IGNORED, "")])

(***************************************************************************)
(* The world the operations act on: w.fs the file system, w.k the inotify  *)
(* instance, w.iw the InotifyWaiter, w.fac the FileChangeWaiter, w.calls   *)
(* the backend operations invoked so far by the running handler (and       *)
(* "InotifyWaiter" when it constructed a watcher).                         *)
(* An outcome o says what fails in the running handler: o.addFail the      *)
(* paths whose add_watch fails, o.rmFail whether rm_watch fails, o.readFail*)
(* whether reading the descriptor fails, o.wpRaise whether an unexpected   *)
(* exception escapes watch_paths.                                          *)
(***************************************************************************)
Called(w, op) == [w EXCEPT !.calls = @ \cup {op}]

\* add_watch with IN_MASK_ADD: the mask of an object that is already
\* watched is extended instead of replaced
AddWatch_MaskAdd(w0, path, mask, o) ==
    Bind(Called(w0, "add_watch"), LAMBDA w :
        LET old == {x \in w.k.watches : x.ino = path}
            ok == /\ w.k.open
                  /\ path \notin o.addFail
                  /\ Exists(w.fs, path)
                  /\ (old # {} \/ w.k.next <= MaxWd)
            wd == IF old # {} THEN (CHOOSE x \in old : TRUE).wd ELSE w.k.next
            watches == (w.k.watches \ old) \cup
                           {[wd |-> wd, ino |-> path,
                             mask |-> mask \cup UNION {x.mask : x \in old}]}
        IN IF ok
           THEN [w |-> [w EXCEPT !.k.watches = watches,
                                 !.k.next = IF old # {} THEN @ ELSE @ + 1],
                 ok |-> TRUE, wd |-> wd]
           ELSE [w |-> w, ok |-> FALSE, wd |-> -1])

\* _CtypesInotifyBackend.add_watch / _InotifySimpleBackend.add_watch:
\* [w, ok, wd]; ok = FALSE when the call raises.  The kernel gives an object
\* that is already watched its old descriptor back and replaces the mask.
AddWatch(w0, path, mask, o) ==
    Bind(Called(w0, "add_watch"), LAMBDA w :
        LET old == {x \in w.k.watches : x.ino = path}
            ok == /\ w.k.open
                  /\ path \notin o.addFail
                  /\ Exists(w.fs, path)
                  /\ (old # {} \/ w.k.next <= MaxWd)
            wd == IF old # {} THEN (CHOOSE x \in old : TRUE).wd ELSE w.k.next
            watches == (w.k.watches \ old) \cup {[wd |-> wd, ino |-> path, mask |-> mask]}
        IN IF ok
           THEN [w |-> [w EXCEPT !.k.watches = watches,
                                 !.k.next = IF old # {} THEN @ ELSE @ + 1],
                 ok |-> TRUE, wd |-> wd]
           ELSE [w |-> w, ok |-> FALSE, wd |-> -1])

\* inotify_rm_watch: the watch goes and IN_IGNORED is queued for it
KernelRm(k, wd) ==
    LET hit == {x \in k.watches : x.wd = wd}
    IN [k EXCEPT !.watches = @ \ hit,
                 !.queue = IF hit = {} THEN @
                           ELSE Push(@, InotifyEvent(wd, MASK_IGNORED, ""))]

\* _CtypesInotifyBackend.rm_watch without the test for EINVAL and ENOENT:
\* "no such watch" raises like any other failure
CtypesRmWatch_RaisesWhenGone(w0, wd, o) ==
    Bind(Called(w0, "rm_watch"), LAMBDA w :
        IF wd <= 0 THEN [w |-> w, ok |-> TRUE]
        ELSE IF o.rmFail \/ ~w.k.open \/ ~\E x \in w.k.watches : x.wd = wd
        THEN [w |-> w, ok |-> FALSE]
        ELSE [w |-> [w EXCEPT !.k = KernelRm(w.k, wd)], ok |-> TRUE])

\* _CtypesInotifyBackend.rm_watch: [w, ok]; a descriptor <= 0 is not passed
\* on, "no such watch" is ignored, any other failure raises
CtypesRmWatch(w0, wd, o) ==
    Bind(Called(w0, "rm_watch"), LAMBDA w :
        IF wd <= 0 THEN [w |-> w, ok |-> TRUE]
        ELSE IF o.rmFail \/ ~w.k.open THEN [w |-> w, ok |-> FALSE]
        ELSE [w |-> [w EXCEPT !.k = KernelRm(w.k, wd)], ok |-> TRUE])

\* _InotifySimpleBackend.rm_watch: every failure is swallowed
SimpleRmWatch(w0, wd, o) ==
    Bind(Called(w0, "rm_watch"), LAMBDA w :
        IF o.rmFail \/ ~w.k.open THEN [w |-> w, ok |-> TRUE]
        ELSE [w |-> [w EXCEPT !.k = KernelRm(w.k, wd)], ok |-> TRUE])

RmWatch(w, wd, o) ==
    IF w.iw.backend = "ctypes" THEN CtypesRmWatch(w, wd, o) ELSE SimpleRmWatch(w, wd, o)

\* _CtypesInotifyBackend.read: [w, ok, events]; an empty queue is a timeout,
\* a failing os.read raises, otherwise the queued events are drained
CtypesRead(w0, o) ==
    Bind(Called(w0, "read"), LAMBDA w :
        IF ~w.k.open \/ w.k.queue = <<>> THEN [w |-> w, ok |-> TRUE, events |-> <<>>]
        ELSE IF o.readFail THEN [w |-> w, ok |-> FALSE, events |-> <<>>]
        ELSE [w |-> [w EXCEPT !.k.queue = <<>>], ok |-> TRUE, events |-> w.k.queue])

\* _InotifySimpleBackend.read: a failure gives no events
SimpleRead(w0, o) ==
    Bind(Called(w0, "read"), LAMBDA w :
        IF ~w.k.open \/ w.k.queue = <<>> \/ o.readFail
        THEN [w |-> w, ok |-> TRUE, events |-> <<>>]
        ELSE [w |-> [w EXCEPT !.k.queue = <<>>], ok |-> TRUE, events |-> w.k.queue])


Read(w, o) ==
    IF w.iw.backend = "ctypes" THEN CtypesRead(w, o) ELSE SimpleRead(w, o)

\* close of either backend releases the descriptor, and with it every watch
\* and every queued event
\* _CtypesInotifyBackend.close: os.close(self._fd), every failure swallowed.
\* _fd keeps its number after the close: a second close finds the number
\* free (EBADF, swallowed) or finds the other file the process has opened
\* under it since, and closes that file.
CtypesClose(w0) ==
    Bind(Called(w0, "close"), LAMBDA w :
        IF w.k.open THEN [w EXCEPT !.k = NoKernel]
        ELSE IF w.k.other = "open" THEN [w EXCEPT !.k.other = "closed"]
        ELSE w)

\* _InotifySimpleBackend.close: the library object knows that it is closed
SimpleClose(w0) ==
    Bind(Called(w0, "close"), LAMBDA w :
        IF w.k.open THEN [w EXCEPT !.k = NoKernel] ELSE w)

BackendClose(w) ==
    IF w.iw.backend = "ctypes" THEN CtypesClose(w) ELSE SimpleClose(w)

(***************************************************************************)
(* InotifyWaiter.  w.iw.wds is _wds as the set of its entries [wd, kind,   *)
(* path], w.iw.tracked_files the keys of _tracked_files in insertion order *)
(* (the value of a key is its Parent), w.iw.overflowed the flag.           *)
(***************************************************************************)
\* self._wds[wd] = (kind, path)
SetWd(wds, wd, kind, path) ==
    {e \in wds : e.wd # wd} \cup {[wd |-> wd, kind |-> kind, path |-> path]}

\* self._wds.pop(wd, None)
PopWd(wds, wd) == {e \in wds : e.wd # wd}

\* rm_watch on each descriptor of wdseq in turn, every failure swallowed
RECURSIVE RmEach(_, _, _)
RmEach(w, wdseq, o) ==
    IF wdseq = <<>> THEN w
    ELSE Bind(RmWatch(w, Head(wdseq), o).w, LAMBDA w1 : RmEach(w1, Tail(wdseq), o))

\* list(self._wds.keys()): descriptors are handed out in ascending order,
\* so insertion order is ascending order
WdsKeys(wds) == Ascending({e.wd : e \in wds})

\* _reset_watches without self._tracked_files.clear()
ResetWatches_KeepTracked(w, o) ==
    Bind(RmEach(w, WdsKeys(w.iw.wds), o), LAMBDA w1 :
        [w1 EXCEPT !.iw.wds = {}])

\* _reset_watches that also clears the overflow flag
ResetWatches_ClearOverflow(w, o) ==
    Bind(RmEach(w, WdsKeys(w.iw.wds), o), LAMBDA w1 :
        [w1 EXCEPT !.iw.wds = {}, !.iw.tracked_files = <<>>, !.iw.overflowed = FALSE])

\* InotifyWaiter._reset_watches
ResetWatches(w, o) ==
    Bind(RmEach(w, WdsKeys(w.iw.wds), o), LAMBDA w1 :
        [w1 EXCEPT !.iw.wds = {}, !.iw.tracked_files = <<>>])

\* self._tracked_files[file_path] = parent
Track(tracked, path) ==
    IF \E i \in 1..Len(tracked) : tracked[i] = path THEN tracked
    ELSE Append(tracked, path)

\* InotifyWaiter._watch_one from the parent watch on: add_watch on the
\* parent directory, then on the file itself if it exists
WatchParentAndFile(w, path, o) ==
    Bind(AddWatch(w, Parent(path), DIR_MASK, o), LAMBDA pw :
    Bind(IF pw.ok THEN [pw.w EXCEPT !.iw.wds = SetWd(pw.w.iw.wds, pw.wd, "dir", Parent(path))]
         ELSE pw.w, LAMBDA w2 :
        IF ~Exists(w2.fs, path) THEN w2
        ELSE Bind(AddWatch(w2, path, FILE_MASK, o), LAMBDA fw :
                 IF fw.ok
                 THEN [fw.w EXCEPT !.iw.wds = SetWd(fw.w.iw.wds, fw.wd, "file", path)]
                 ELSE fw.w)))

\* _watch_one without the is_dir branch: a directory is watched like a file
WatchOne_NoDirCase(w0, path, o) ==
    Bind([w0 EXCEPT !.iw.tracked_files = Track(w0.iw.tracked_files, path)], LAMBDA w :
        WatchParentAndFile(w, path, o))

\* _watch_one that gives up on a directory whose add_watch raised
WatchOne_NoFallThrough(w0, path, o) ==
    Bind([w0 EXCEPT !.iw.tracked_files = Track(w0.iw.tracked_files, path)], LAMBDA w :
        IF Exists(w.fs, path) /\ IsDir(w.fs, path)
        THEN Bind(AddWatch(w, path, DIR_MASK, o), LAMBDA direct :
                 IF direct.ok
                 THEN [direct.w EXCEPT
                          !.iw.wds = SetWd(direct.w.iw.wds, direct.wd, "dir", path)]
                 ELSE direct.w)
        ELSE WatchParentAndFile(w, path, o))

\* InotifyWaiter._watch_one: a path that is a directory is watched itself;
\* when that add_watch raises, or the path is no directory, the parent and
\* the file are
WatchOne(w0, path, o) ==
    Bind([w0 EXCEPT !.iw.tracked_files = Track(w0.iw.tracked_files, path)], LAMBDA w :
        IF Exists(w.fs, path) /\ IsDir(w.fs, path)
        THEN Bind(AddWatch(w, path, DIR_MASK, o), LAMBDA direct :
                 IF direct.ok
                 THEN [direct.w EXCEPT
                          !.iw.wds = SetWd(direct.w.iw.wds, direct.wd, "dir", path)]
                 ELSE WatchParentAndFile(direct.w, path, o))
        ELSE WatchParentAndFile(w, path, o))

\* the loop of watch_paths with a failing add_watch escaping _watch_one:
\* the paths after the one it failed for are not looked at
RECURSIVE WatchEach_StopAtFailure(_, _, _)
WatchEach_StopAtFailure(w, paths, o) ==
    IF paths = <<>> THEN w
    ELSE Bind(WatchOne(w, Head(paths), o), LAMBDA w1 :
             IF {Head(paths), Parent(Head(paths))} \cap o.addFail # {} THEN w1
             ELSE WatchEach_StopAtFailure(w1, Tail(paths), o))

RECURSIVE WatchEach(_, _, _)
WatchEach(w, paths, o) ==
    IF paths = <<>> THEN w
    ELSE Bind(WatchOne(w, Head(paths), o), LAMBDA w1 : WatchEach(w1, Tail(paths), o))

\* InotifyWaiter.watch_paths
WatchPaths(w, paths, o) ==
    Bind(ResetWatches(w, o), LAMBDA w1 : WatchEach(w1, paths, o))

\* _refresh_file_watch that does not record the descriptor add_watch gave
RefreshFileWatch_NoRecord(w, file_path, o) ==
    IF ~Exists(w.fs, file_path) THEN w
    ELSE Bind({e \in w.iw.wds : e.kind = "file" /\ e.path = file_path}, LAMBDA mine :
         Bind(RmEach(w, WdsKeys(mine), o), LAMBDA w1 :
             AddWatch([w1 EXCEPT !.iw.wds = w1.iw.wds \ mine], file_path, FILE_MASK, o).w))

\* InotifyWaiter._refresh_file_watch
RefreshFileWatch(w, file_path, o) ==
    IF ~Exists(w.fs, file_path) THEN w
    ELSE Bind({e \in w.iw.wds : e.kind = "file" /\ e.path = file_path}, LAMBDA mine :
         Bind(RmEach(w, WdsKeys(mine), o), LAMBDA w1 :
         Bind(AddWatch([w1 EXCEPT !.iw.wds = w1.iw.wds \ mine], file_path, FILE_MASK, o),
              LAMBDA r :
                 IF r.ok
                 THEN [r.w EXCEPT !.iw.wds = SetWd(r.w.iw.wds, r.wd, "file", file_path)]
                 ELSE r.w)))


\* self._wds.get(wd): the entries of wd (none or one)
WdsGet(w, wd) == {e \in w.iw.wds : e.wd = wd}

\* the scan of _tracked_files without the test of the parent: the first
\* tracked file with the event's name matches, whatever directory the
\* event's descriptor resolves to
FirstMatch_AnyParent(w, ev) ==
    LET tf == w.iw.tracked_files
        hits == {i \in 1..Len(tf) : Parent(tf[i]) # "" /\ Name(tf[i]) = ev.name}
    IN IF hits = {} THEN 0 ELSE CHOOSE i \in hits : \A j \in hits : i <= j

\* the scan of _tracked_files for the file a named event is about: the index
\* of the first tracked file that matches, 0 when none does
FirstMatch(w, ev) ==
    LET watched == WdsGet(w, ev.wd)
        watched_path == IF watched # {} THEN (CHOOSE e \in watched : TRUE).path ELSE ""
        tf == w.iw.tracked_files
        ok(i) == /\ Parent(tf[i]) # ""
                 /\ (watched_path = "" \/ watched_path = Parent(tf[i]))
                 /\ Name(tf[i]) = ev.name
        hits == {i \in 1..Len(tf) : ok(i)}
    IN IF hits = {} THEN 0 ELSE CHOOSE i \in hits : \A j \in hits : i <= j

\* the loop of InotifyWaiter.wait going on after an overflow or self event
\* instead of returning: the later events of the batch are handled too
RECURSIVE ProcessEvents_ScanAll(_, _, _, _)
ProcessEvents_ScanAll(w, events, i, o) ==
    IF i > Len(events) THEN [w |-> w, ret |-> TRUE, at |-> 0]
    ELSE LET ev == events[i]
             kind_path == WdsGet(w, ev.wd)
             m == FirstMatch(w, ev)
         IN IF ev.mask \cap MASK_Q_OVERFLOW # {}
            THEN Bind(ProcessEvents_ScanAll([w EXCEPT !.iw.overflowed = TRUE],
                                            events, i + 1, o), LAMBDA p :
                     [p EXCEPT !.at = IF @ = 0 THEN i ELSE @])
            ELSE IF ev.mask \cap (MASK_MOVE_SELF \cup MASK_DELETE_SELF) # {}
            THEN Bind(IF kind_path # {} /\ (CHOOSE e \in kind_path : TRUE).kind = "file"
                      THEN RefreshFileWatch(w, (CHOOSE e \in kind_path : TRUE).path, o)
                      ELSE w, LAMBDA w1 :
                 Bind(ProcessEvents_ScanAll(w1, events, i + 1, o), LAMBDA p :
                     [p EXCEPT !.at = IF @ = 0 THEN i ELSE @]))
            ELSE IF ev.name # ""
            THEN [w |-> IF m # 0 THEN RefreshFileWatch(w, w.iw.tracked_files[m], o) ELSE w,
                  ret |-> TRUE, at |-> i]
            ELSE ProcessEvents_ScanAll(w, events, i + 1, o)

\* the loop of InotifyWaiter.wait reporting a change only for an event it
\* recognises: false for a name that matches no tracked file and false when
\* the batch ends without an overflow, self or named event
RECURSIVE ProcessEvents_MatchOnly(_, _, _, _)
ProcessEvents_MatchOnly(w, events, i, o) ==
    IF i > Len(events) THEN [w |-> w, ret |-> FALSE, at |-> 0]
    ELSE LET ev == events[i]
             kind_path == WdsGet(w, ev.wd)
             m == FirstMatch(w, ev)
         IN IF ev.mask \cap MASK_Q_OVERFLOW # {}
            THEN [w |-> [w EXCEPT !.iw.overflowed = TRUE], ret |-> TRUE, at |-> i]
            ELSE IF ev.mask \cap (MASK_MOVE_SELF \cup MASK_DELETE_SELF) # {}
            THEN [w |-> IF kind_path # {} /\ (CHOOSE e \in kind_path : TRUE).kind = "file"
                        THEN RefreshFileWatch(w, (CHOOSE e \in kind_path : TRUE).path, o)
                        ELSE w,
                  ret |-> TRUE, at |-> i]
            ELSE IF ev.name # ""
            THEN [w |-> IF m # 0 THEN RefreshFileWatch(w, w.iw.tracked_files[m], o) ELSE w,
                  ret |-> m # 0, at |-> i]
            ELSE ProcessEvents_MatchOnly(w, events, i + 1, o)

\* the loop of InotifyWaiter.wait over the events of one batch, from event
\* number i on: [w, ret, at], at the number of the event that ended the
\* loop (0 when the loop ran to the end of the batch)
RECURSIVE ProcessEvents(_, _, _, _)
ProcessEvents(w, events, i, o) ==
    IF i > Len(events) THEN [w |-> w, ret |-> TRUE, at |-> 0]
    ELSE LET ev == events[i]
             kind_path == WdsGet(w, ev.wd)
             m == FirstMatch(w, ev)
         IN IF ev.mask \cap MASK_Q_OVERFLOW # {}
            THEN [w |-> [w EXCEPT !.iw.overflowed = TRUE], ret |-> TRUE, at |-> i]
            ELSE IF ev.mask \cap (MASK_MOVE_SELF \cup MASK_DELETE_SELF) # {}
            THEN [w |-> IF kind_path # {} /\ (CHOOSE e \in kind_path : TRUE).kind = "file"
                        THEN RefreshFileWatch(w, (CHOOSE e \in kind_path : TRUE).path, o)
                        ELSE w,
                  ret |-> TRUE, at |-> i]
            ELSE IF ev.name # ""
            THEN [w |-> IF m # 0 THEN RefreshFileWatch(w, w.iw.tracked_files[m], o) ELSE w,
                  ret |-> TRUE, at |-> i]
            ELSE ProcessEvents(w, events, i + 1, o)

\* int(timeout * 1000), the clamp forgotten
TimeoutMs_NoClamp(timeout) == timeout * 50

\* int(max(0.0, timeout) * 1000), the timeout being in units of 50 ms
TimeoutMs(timeout) == (IF timeout > 0 THEN timeout ELSE 0) * 50

\* InotifyWaiter.wait: [w, ok, ret, events, at, ms]; ok = FALSE when it
\* raises, ms is the timeout handed to the backend's read
WatcherWait(w, timeout, o) ==
    Bind(Read(w, o), LAMBDA r :
        IF ~r.ok
        THEN [w |-> r.w, ok |-> FALSE, ret |-> FALSE, events |-> <<>>, at |-> 0,
              ms |-> TimeoutMs(timeout)]
        ELSE IF r.events = <<>>
        THEN [w |-> r.w, ok |-> TRUE, ret |-> FALSE, events |-> <<>>, at |-> 0,
              ms |-> TimeoutMs(timeout)]
        ELSE Bind(ProcessEvents(r.w, r.events, 1, o), LAMBDA p :
                 [w |-> p.w, ok |-> TRUE, ret |-> p.ret, events |-> r.events, at |-> p.at,
                  ms |-> TimeoutMs(timeout)]))

\* InotifyWaiter.close
WatcherClose(w, o) ==
    Bind(RmEach(w, WdsKeys(w.iw.wds), o), LAMBDA w1 :
        BackendClose([w1 EXCEPT !.iw.wds = {}]))

(***************************************************************************)
(* AdaptivePollWaiter.  Durations are integers in units of 50 ms.          *)
(***************************************************************************)
\* max_interval: float = 0.5
DefaultMaxInterval == 10

Min(a, b) == IF a <= b THEN a ELSE b
Max(a, b) == IF a >= b THEN a ELSE b

\* AdaptivePollWaiter.__init__
NewPoll(base_interval, max_interval) ==
    LET base == Max(0, base_interval)
    IN [base |-> base, max |-> Max(base, max_interval), current |-> base]

\* AdaptivePollWaiter.reset
PollReset(poll) == [poll EXCEPT !.current = poll.base]

\* self._current * 1.5; the result is only used under min(self._max, .),
\* where the half unit lost by the division changes nothing as long as the
\* intervals below max are even or max is an integer, which Init provides
Times15(x) == (x * 3) \div 2

\* a poller's wait that reports a change after a real sleep
PollWait_ReportsChange(poll, timeout) ==
    [poll |-> IF timeout > 0
              THEN [poll EXCEPT !.current = Min(poll.max, Max(poll.base, Times15(poll.current)))]
              ELSE poll,
     ret |-> timeout > 0,
     slept |-> Min(Max(0, timeout), poll.current)]

\* a poller's wait whose interval grows without the cap
PollWait_NoCap(poll, timeout) ==
    [poll |-> IF timeout > 0
              THEN [poll EXCEPT !.current = Max(poll.base, Times15(poll.current))]
              ELSE poll,
     ret |-> FALSE,
     slept |-> Min(Max(0, timeout), poll.current)]

\* a poller's wait that sleeps its whole interval
PollWait_SleepsInterval(poll, timeout) ==
    [poll |-> IF timeout > 0
              THEN [poll EXCEPT !.current = Min(poll.max, Max(poll.base, Times15(poll.current)))]
              ELSE poll,
     ret |-> FALSE,
     slept |-> poll.current]

\* AdaptivePollWaiter.wait: [poll, ret, slept]
PollWait(poll, timeout) ==
    [poll |-> IF timeout > 0
              THEN [poll EXCEPT !.current = Min(poll.max, Max(poll.base, Times15(poll.current)))]
              ELSE poll,
     ret |-> FALSE,
     slept |-> Min(Max(0, timeout), poll.current)]

(***************************************************************************)
(* FileChangeWaiter.  w.fac.inotify says whether _inotify holds a watcher  *)
(* (its state is w.iw) or is None.                                         *)
(***************************************************************************)
\* _make_backend without its except branch: no second backend is tried
MakeBackend_NoFallback(c) ==
    IF c.simpleOk
    THEN [ok |-> TRUE, backend |-> "simple", attempts |-> <<"simple">>, leaked |-> FALSE]
    ELSE [ok |-> FALSE, backend |-> "none", attempts |-> <<"simple">>, leaked |-> FALSE]

\* InotifyWaiter._make_backend under the construction outcomes c:
\* [ok, backend, attempts, leaked], attempts the constructors tried, in
\* order.  _CtypesInotifyBackend.__init__ can fail before it has a
\* descriptor (no libc, no inotify_init, fd < 0) or after (c.ctypesLate: the
\* lookup of inotify_add_watch or inotify_rm_watch raises); the descriptor
\* it has by then is closed nowhere: leaked.
MakeBackend(c) ==
    IF c.simpleOk
    THEN [ok |-> TRUE, backend |-> "simple", attempts |-> <<"simple">>, leaked |-> FALSE]
    ELSE IF c.ctypesOk
    THEN [ok |-> TRUE, backend |-> "ctypes", attempts |-> <<"simple", "ctypes">>,
          leaked |-> FALSE]
    ELSE [ok |-> FALSE, backend |-> "none", attempts |-> <<"simple", "ctypes">>,
          leaked |-> c.ctypesLate]

\* InotifyWaiter.__init__ on a backend
NewWatcher(backend) ==
    [backend |-> backend, wds |-> {}, tracked_files |-> <<>>, overflowed |-> FALSE]

\* _maybe_enable_inotify with the flag set before the watcher is built and
\* not taken back when the construction fails
MaybeEnableInotify_KeepFlag(w, c) ==
    IF ~w.fac.enabled THEN [w |-> w, attempts |-> <<>>]
    ELSE IF c.platform # "linux" THEN [w |-> w, attempts |-> <<>>]
    ELSE Bind(MakeBackend(c), LAMBDA b :
        IF b.ok
        THEN [w |-> [Called(w, "InotifyWaiter") EXCEPT
                              !.iw = NewWatcher(b.backend), !.k = NewKernel,
                              !.fac.inotify = TRUE, !.fac.use_inotify = TRUE],
              attempts |-> b.attempts]
        ELSE [w |-> [w EXCEPT !.fac.inotify = FALSE, !.fac.use_inotify = TRUE,
                              !.k = IF b.leaked THEN NewKernel ELSE w.k],
              attempts |-> b.attempts])

\* FileChangeWaiter._maybe_enable_inotify: [w, attempts]
MaybeEnableInotify(w, c) ==
    IF ~w.fac.enabled THEN [w |-> w, attempts |-> <<>>]
    ELSE IF c.platform # "linux" THEN [w |-> w, attempts |-> <<>>]
    ELSE Bind(MakeBackend(c), LAMBDA b :
        IF b.ok
        THEN [w |-> [Called(w, "InotifyWaiter") EXCEPT
                              !.iw = NewWatcher(b.backend), !.k = NewKernel,
                              !.fac.inotify = TRUE, !.fac.use_inotify = TRUE],
              attempts |-> b.attempts]
        ELSE [w |-> [w EXCEPT !.fac.inotify = FALSE, !.fac.use_inotify = FALSE,
                              !.k = IF b.leaked THEN NewKernel ELSE w.k],
              attempts |-> b.attempts])


\* [Path(p) for p in paths], the filter forgotten
NonEmpty_KeepAll(paths) == paths

\* [Path(p) for p in paths if p]
RECURSIVE NonEmpty(_)
NonEmpty(paths) ==
    IF paths = <<>> THEN <<>>
    ELSE IF Head(paths) = "" THEN NonEmpty(Tail(paths))
    ELSE <<Head(paths)>> \o NonEmpty(Tail(paths))

\* the except branch without its last line, self._inotify = None
Demote_KeepWatcher(w, o) ==
    WatcherClose([w EXCEPT !.fac.use_inotify = FALSE], o)

\* the except branch of update_paths and of wait: fall back to polling
Demote(w, o) ==
    Bind(WatcherClose([w EXCEPT !.fac.use_inotify = FALSE], o), LAMBDA w2 :
        [w2 EXCEPT !.fac.inotify = FALSE])

\* update_paths that tries the native strategy again when it finds the
\* facade polling
UpdatePaths_Repromote(w0, paths, o) ==
    Bind([w0 EXCEPT !.fac.paths = NonEmpty(paths)], LAMBDA w :
        IF w.fac.use_inotify /\ w.fac.inotify
        THEN IF o.wpRaise
             THEN [w |-> Demote(w, o), raised |-> FALSE, wp |-> TRUE]
             ELSE [w |-> WatchPaths(w, w.fac.paths, o), raised |-> FALSE, wp |-> FALSE]
        ELSE Bind(MaybeEnableInotify(w, [platform |-> "linux", simpleOk |-> TRUE,
                                         ctypesOk |-> TRUE, ctypesLate |-> FALSE]).w,
                  LAMBDA again :
                 [w |-> WatchPaths(again, again.fac.paths, o), raised |-> FALSE,
                  wp |-> FALSE]))

\* FileChangeWaiter.update_paths: [w, raised, wp], wp whether watch_paths
\* raised
UpdatePaths(w0, paths, o) ==
    Bind([w0 EXCEPT !.fac.paths = NonEmpty(paths)], LAMBDA w :
        IF w.fac.use_inotify /\ w.fac.inotify
        THEN IF o.wpRaise
             THEN [w |-> Demote(w, o), raised |-> FALSE, wp |-> TRUE]
             ELSE [w |-> WatchPaths(w, w.fac.paths, o), raised |-> FALSE, wp |-> FALSE]
        ELSE [w |-> w, raised |-> FALSE, wp |-> FALSE])

\* the fallback of FileChangeWaiter.wait, self._poll.wait(timeout), after
\* the watcher's wait raised (nraised) or without one
PolledWait(w, timeout, nraised, ms) ==
    Bind(PollWait(w.fac.poll, timeout), LAMBDA p :
        [w |-> [w EXCEPT !.fac.poll = p.poll], ret |-> p.ret, raised |-> FALSE,
         native |-> nraised, nraised |-> nraised, polled |-> TRUE, slept |-> p.slept,
         events |-> <<>>, at |-> 0, ms |-> ms])

\* FileChangeWaiter.wait that goes on to the poller when the watcher's wait
\* found no event
FacadeWait_PollsWhenIdle(w, timeout, o) ==
    IF w.fac.use_inotify /\ w.fac.inotify
    THEN Bind(WatcherWait(w, timeout, o), LAMBDA n :
             IF n.ok /\ n.ret
             THEN [w |-> n.w, ret |-> n.ret, raised |-> FALSE, native |-> TRUE,
                   nraised |-> FALSE, polled |-> FALSE, slept |-> 0,
                   events |-> n.events, at |-> n.at, ms |-> n.ms]
             ELSE IF n.ok
             THEN Bind(PollWait(n.w.fac.poll, timeout), LAMBDA p :
                     [w |-> [n.w EXCEPT !.fac.poll = p.poll], ret |-> p.ret, raised |-> FALSE,
                      native |-> TRUE, nraised |-> FALSE, polled |-> TRUE, slept |-> p.slept,
                      events |-> n.events, at |-> n.at, ms |-> n.ms])
             ELSE Bind(Demote(n.w, o), LAMBDA w1 : PolledWait(w1, timeout, TRUE, n.ms)))
    ELSE PolledWait(w, timeout, FALSE, 0)

\* FileChangeWaiter.wait: [w, ret, raised, native, nraised, polled, slept,
\* events, at, ms]: native whether the watcher's wait was called, nraised
\* whether it raised, polled whether the poller's wait was called
FacadeWait(w, timeout, o) ==
    IF w.fac.use_inotify /\ w.fac.inotify
    THEN Bind(WatcherWait(w, timeout, o), LAMBDA n :
             IF n.ok
             THEN [w |-> n.w, ret |-> n.ret, raised |-> FALSE, native |-> TRUE,
                   nraised |-> FALSE, polled |-> FALSE, slept |-> 0,
                   events |-> n.events, at |-> n.at, ms |-> n.ms]
             ELSE Bind(Demote(n.w, o), LAMBDA w1 : PolledWait(w1, timeout, TRUE, n.ms)))
    ELSE PolledWait(w, timeout, FALSE, 0)

\* FileChangeWaiter.close without its last line, self._inotify = None
FacadeClose_KeepWatcher(w, o) ==
    IF w.fac.inotify THEN WatcherClose(w, o) ELSE w

\* FileChangeWaiter.close
FacadeClose(w, o) ==
    Bind(IF w.fac.inotify THEN WatcherClose(w, o) ELSE w, LAMBDA w1 :
        [w1 EXCEPT !.fac.inotify = FALSE])


\* FileChangeWaiter.reset_backoff
ResetBackoff(w) == [w EXCEPT !.fac.poll = PollReset(@)]

\* overflowed read off the watcher without asking whether one is held
Overflowed_DeadWatcher(w) == w.iw.overflowed

\* FileChangeWaiter.overflowed
Overflowed(w) == w.fac.inotify /\ w.iw.overflowed

\* FileChangeWaiter.__init__: [w, attempts, selected, wp], selected the flag
\* _use_inotify as _maybe_enable_inotify left it
Construct(fsys, paths, enabled, poll_interval, c, o) ==
    Bind(MaybeEnableInotify(
             [fs |-> fsys, k |-> NoKernel, iw |-> NewWatcher("none"), calls |-> {},
              fac |-> [paths |-> NonEmpty(paths), enabled |-> enabled,
                       poll |-> NewPoll(poll_interval, DefaultMaxInterval),
                       inotify |-> FALSE, use_inotify |-> FALSE]], c), LAMBDA e :
    Bind(UpdatePaths(e.w, e.w.fac.paths, o), LAMBDA u :
        [w |-> u.w, attempts |-> e.attempts, selected |-> e.w.fac.use_inotify,
         wp |-> u.wp]))

(***************************************************************************)
(* The file system and the kernel side of inotify: what other processes do *)
(* to the children of the directory, and the events the kernel queues.     *)
(***************************************************************************)
Queue(k, evs) == Bind(evs, LAMBDA es : [k EXCEPT !.queue = PushAll(k.queue, es)])


\* the watches on the object at path p go away with the object
Unwatch(k, p) == [k EXCEPT !.watches = {x \in @ : x.ino # p}]

\* the watches on the object at path p follow the object away from p
Detach(k, p) ==
    [k EXCEPT !.watches = {IF x.ino = p THEN [x EXCEPT !.ino = Stale] ELSE x : x \in @}]

\* creat(p)
KCreate(k, p) == Queue(k, EventsFor(k, Parent(p), "CREATE", Name(p)))

\* write(p) by a process that keeps the file open
KWrite(k, p) == Queue(k, EventsFor(k, p, "MODIFY", ""))

\* close(p) of a file opened for writing: the parent's watches first
KCloseWrite(k, p) ==
    Queue(k, EventsFor(k, Parent(p), "CLOSE_WRITE", Name(p)) \o EventsFor(k, p, "CLOSE_WRITE", ""))

\* unlink(p): IN_DELETE in the parent, then IN_DELETE_SELF and IN_IGNORED
\* on the file's own watches, which the kernel drops
KDelete(k, p) ==
    Unwatch(Queue(k, EventsFor(k, Parent(p), "DELETE", Name(p))
                     \o EventsFor(k, p, "DELETE_SELF", "") \o IgnoredFor(k, p)), p)

\* rename(p, elsewhere): IN_MOVE_SELF on the file's own watches, which stay
\* on the file (IN_MOVED_FROM is in neither mask)
KMoveAway(k, p) == Detach(Queue(k, EventsFor(k, p, "MOVE_SELF", "")), p)

\* rename(elsewhere, p): IN_MOVED_TO in the parent; a file that was at p is
\* unlinked by it
KMoveInto(k, p, existed) ==
    IF existed
    THEN Unwatch(Queue(k, EventsFor(k, Parent(p), "MOVED_TO", Name(p))
                          \o EventsFor(k, p, "DELETE_SELF", "") \o IgnoredFor(k, p)), p)
    ELSE Queue(k, EventsFor(k, Parent(p), "MOVED_TO", Name(p)))

(***************************************************************************)
(* State.                                                                  *)
(***************************************************************************)
VARIABLES
    fs,     \* the file system: child path -> "none" | "file"
    k,      \* the inotify instance of the backend
    iw,     \* the InotifyWaiter
    fac,    \* the FileChangeWaiter
    ctor,   \* the inputs and outcomes of the constructor call
    last,   \* what the last call on the facade did and returned
    hist    \* what happened since the watches were last set

vars == <<fs, k, iw, fac, ctor, last, hist>>

World == [fs |-> fs, k |-> k, iw |-> iw, fac |-> fac, calls |-> {}]

\* what may fail in one call
Outcomes(addFails, rmFails, readFails, wpRaises) ==
    [addFail : addFails, rmFail : rmFails, readFail : readFails, wpRaise : wpRaises]

NoFailure == Outcomes({{}}, {FALSE}, {FALSE}, {FALSE})

NoLast ==
    [op |-> "none", arg |-> <<>>, ret |-> FALSE, raised |-> FALSE, native |-> FALSE,
     nraised |-> FALSE, wp |-> FALSE, polled |-> FALSE, slept |-> 0, events |-> <<>>,
     at |-> 0, ms |-> 0, calls |-> {}, addFail |-> {}, rmFail |-> FALSE, timeout |-> 0]

Native(w) == w.fac.use_inotify /\ w.fac.inotify

\* the kernel dropped an event, or the descriptors ran out
Lossy(kk) ==
    \/ \E i \in 1..Len(kk.queue) : kk.queue[i] = OverflowEvent
    \/ kk.next > MaxWd

\* path p has its parent watch and its own file watch, in _wds and in the kernel
Covered(w, p) ==
    /\ \E e \in w.iw.wds : /\ e.kind = "dir" /\ e.path = Parent(p)
                            /\ \E x \in w.k.watches : x.wd = e.wd /\ x.ino = Parent(p)
    /\ \E e \in w.iw.wds : /\ e.kind = "file" /\ e.path = p
                            /\ \E x \in w.k.watches : x.wd = e.wd /\ x.ino = p

\* path p has its parent watch only
ParentOnly(w, p) ==
    /\ \E e \in w.iw.wds : /\ e.kind = "dir" /\ e.path = Parent(p)
                            /\ \E x \in w.k.watches : x.wd = e.wd /\ x.ino = Parent(p)
    /\ ~\E e \in w.iw.wds : e.kind = "file"

\* the history a watch_paths call over world w (its result) starts:
\* estab the paths that exist and got both their watches, absent the path
\* that was the only one, did not exist and got its parent watch;
\* unwoken the paths among them written since and not yet followed by a
\* wait that returned true, rotated the established paths whose file was
\* deleted or moved away since, lossy whether a call failed or the kernel
\* dropped an event since, ovf whether the watcher processed an overflow
\* event
NewHist(w, failed, ovf) ==
    [estab |-> IF Native(w)
               THEN {p \in Children : Exists(w.fs, p) /\ Covered(w, p)} ELSE {},
     absent |-> IF Native(w)
                THEN {p \in Children : /\ w.fac.paths = <<p>> /\ ~Exists(w.fs, p)
                                        /\ ParentOnly(w, p)}
                ELSE {},
     unwoken |-> {}, rotated |-> {},
     lossy |-> failed \/ Lossy(w.k),
     ovf |-> ovf]

NoHist == [estab |-> {}, absent |-> {}, unwoken |-> {}, rotated |-> {}, lossy |-> FALSE, ovf |-> FALSE]

Install(w) ==
    /\ fs' = w.fs
    /\ k' = w.k
    /\ iw' = w.iw
    /\ fac' = w.fac

\* a FileChangeWaiter is constructed
ConstructedWith(fsyss, pathlists, enableds, intervals, platforms, oks, lates, outcomes) ==
    \E fsys \in fsyss, paths \in pathlists, enabled \in enableds,
       poll_interval \in intervals, platform \in platforms,
       simpleOk \in oks, ctypesOk \in oks, late \in lates, o \in outcomes :
        \E r \in {Construct(fsys, paths, enabled, poll_interval,
                              [platform |-> platform, simpleOk |-> simpleOk,
                               ctypesOk |-> ctypesOk, ctypesLate |-> late], o)} :
           /\ fs = r.w.fs
           /\ k = r.w.k
           /\ iw = r.w.iw
           /\ fac = r.w.fac
           /\ ctor = [platform |-> platform, simpleOk |-> simpleOk, ctypesOk |-> ctypesOk,
                      late |-> late, attempts |-> r.attempts, selected |-> r.selected]
           /\ last = [NoLast EXCEPT !.op = "init", !.arg = paths, !.wp = r.wp,
                                    !.native = r.selected,
                                    !.calls = r.w.calls, !.addFail = o.addFail]
           /\ hist = IF Native(r.w) THEN NewHist(r.w, o.addFail # {}, FALSE) ELSE NoHist

\* a FileChangeWaiter is constructed, no constructor failing late
Constructed(fsyss, pathlists, enableds, intervals, platforms, oks, outcomes) ==
    ConstructedWith(fsyss, pathlists, enableds, intervals, platforms, oks, {FALSE}, outcomes)

(***************************************************************************)
(* The calls of the caller.                                                *)
(***************************************************************************)
Wait(timeouts, outcomes) ==
    \E timeout \in timeouts, o \in outcomes :
        \E r \in {FacadeWait(World, timeout, o)} :
           /\ Install(r.w)
           /\ last' = [NoLast EXCEPT !.op = "wait", !.ret = r.ret, !.raised = r.raised,
                                     !.native = r.native, !.nraised = r.nraised,
                                     !.polled = r.polled, !.slept = r.slept,
                                     !.events = r.events, !.at = r.at, !.ms = r.ms,
                                     !.calls = r.w.calls, !.addFail = o.addFail,
                                     !.rmFail = o.rmFail, !.timeout = timeout]
           /\ hist' = IF ~Native(r.w) THEN NoHist
                      ELSE [hist EXCEPT !.unwoken = IF r.ret THEN {} ELSE @,
                                        !.lossy = @ \/ Lossy(r.w.k) \/ o.addFail # {}
                                                    \/ o.rmFail,
                                        !.ovf = @ \/ (r.at > 0 /\
                                            r.events[r.at].mask \cap MASK_Q_OVERFLOW # {})]
           /\ UNCHANGED ctor

DoUpdatePaths(pathlists, outcomes) ==
    \E paths \in pathlists, o \in outcomes :
        \E r \in {UpdatePaths(World, paths, o)} :
           /\ Install(r.w)
           /\ last' = [NoLast EXCEPT !.op = "update_paths", !.arg = paths,
                                     !.raised = r.raised, !.wp = r.wp,
                                     !.native = Native(World),
                                     !.calls = r.w.calls, !.addFail = o.addFail,
                                     !.rmFail = o.rmFail]
           /\ hist' = IF Native(r.w)
                      THEN NewHist(r.w, o.addFail # {} \/ o.rmFail, hist.ovf)
                      ELSE NoHist
           /\ UNCHANGED ctor

DoResetBackoff ==
    /\ Install(ResetBackoff(World))
    /\ last' = [NoLast EXCEPT !.op = "reset_backoff"]
    /\ UNCHANGED <<ctor, hist>>

Close(outcomes) ==
    \E o \in outcomes :
        \E w \in {FacadeClose(World, o)} :
           /\ Install(w)
           /\ last' = [NoLast EXCEPT !.op = "close", !.native = Native(World),
                                     !.calls = w.calls, !.rmFail = o.rmFail]
           /\ hist' = NoHist
           /\ UNCHANGED ctor

(***************************************************************************)
(* What other processes do to the children of the directory.               *)
(***************************************************************************)
Env(fsys, kk, written, removed) ==
    \E k1 \in {IF k.open THEN kk ELSE k} :
        /\ fs' = fsys
        /\ k' = k1
        /\ last' = [NoLast EXCEPT !.op = "env"]
        /\ hist' = IF ~k.open THEN hist
                   ELSE [hist EXCEPT
                            !.unwoken = @ \cup (written \cap (hist.estab \cup hist.absent)),
                            !.rotated = @ \cup (removed \cap hist.estab),
                            !.lossy = @ \/ Lossy(k1)]
        /\ UNCHANGED <<iw, fac, ctor>>

EnvCreate(paths) ==
    \E p \in paths :
        /\ fs[p] = "none"
        /\ Env([fs EXCEPT ![p] = "file"], KCreate(k, p), {}, {})

EnvWrite(paths) ==
    \E p \in paths :
        /\ fs[p] = "file"
        /\ Env(fs, KWrite(k, p), {p}, {})

EnvCloseWrite(paths) ==
    \E p \in paths :
        /\ fs[p] = "file"
        /\ Env(fs, KCloseWrite(k, p), {}, {})

EnvDelete(paths) ==
    \E p \in paths :
        /\ fs[p] = "file"
        /\ Env([fs EXCEPT ![p] = "none"], KDelete(k, p), {}, {p})

EnvMoveAway(paths) ==
    \E p \in paths :
        /\ fs[p] = "file"
        /\ Env([fs EXCEPT ![p] = "none"], KMoveAway(k, p), {}, {p})

EnvMoveInto(paths) ==
    \E p \in paths :
        Env([fs EXCEPT ![p] = "file"], KMoveInto(k, p, fs[p] = "file"), {},
            IF fs[p] = "file" THEN {p} ELSE {})

(***************************************************************************)
(* Spec: the facade under every constructor outcome, with the failures     *)
(* that make it change strategy, over one tracked file.                    *)
(***************************************************************************)
\* the values a caller passes
PathLists == {<<>>, <<"a/x">>, <<"", "a/x">>}
Timeouts == {-1, 6}
PollIntervals == {4}
Tracked == {"a/x"}

Init ==
    Constructed([Children -> {"none", "file"}], PathLists, BOOLEAN, PollIntervals,
                {"linux", "darwin"}, BOOLEAN,
                Outcomes({{}, {"a/x"}}, {FALSE}, {FALSE}, BOOLEAN))

Next ==
    \/ Wait(Timeouts, Outcomes({{}}, {FALSE}, BOOLEAN, {FALSE}))
    \/ DoUpdatePaths(PathLists, Outcomes({{}, {"a/x"}}, {FALSE}, {FALSE}, BOOLEAN))
    \/ DoResetBackoff
    \/ Close(NoFailure)
    \/ EnvCreate(Tracked)
    \/ EnvWrite(Tracked)
    \/ EnvDelete(Tracked)

Spec == Init /\ [][Next]_vars

(***************************************************************************)
(* SpecEvents: the native strategy at work on one tracked file, with a     *)
(* sibling in the same directory and no failing call.                      *)
(***************************************************************************)
InitEvents ==
    Constructed([Children -> {"none", "file"}], {<<"a/x">>}, {TRUE}, PollIntervals,
                {"linux"}, {TRUE}, NoFailure)

NextEvents ==
    \/ Wait({0}, NoFailure)
    \/ EnvCreate(Children)
    \/ EnvWrite(Tracked)
    \/ EnvCloseWrite(Tracked)
    \/ EnvDelete(Children)
    \/ EnvMoveAway(Tracked)
    \/ EnvMoveInto(Tracked)

SpecEvents == InitEvents /\ [][NextEvents]_vars

(***************************************************************************)
(* The facade's strategy (Spec).                                           *)
(***************************************************************************)
BackendOps == {"add_watch", "rm_watch", "read", "close"}

\* C1: once the strategy is Polling it is never Native again: in no step
\* does the native flag go from false to true or a dropped watcher come
\* back, and no call after the constructor constructs a native watcher.
C1_NoPollingToNative ==
    [][/\ (~fac.use_inotify => ~fac'.use_inotify)
       /\ (~fac.inotify => ~fac'.inotify)
       /\ "InotifyWaiter" \notin last'.calls]_vars

\* a facade that started Native, was demoted, and has served an
\* update_paths call as a polling facade since
C1_Witness ==
    /\ ctor.selected /\ fac.enabled /\ ~fac.use_inotify
    /\ last.op = "update_paths" /\ ~last.native /\ fac.paths # <<>>

ConstructionFailed ==
    fac.enabled /\ ctor.platform = "linux" /\ ~ctor.simpleOk /\ ~ctor.ctypesOk

\* C2: when both backend constructors fail in the facade's constructor,
\* the facade is Polling from the start and no call, the constructor's own
\* update_paths included, invokes add_watch, rm_watch, read or close.
C2_FailedConstructionStaysPolling ==
    ConstructionFailed =>
        /\ ~ctor.selected
        /\ ~fac.use_inotify /\ ~fac.inotify
        /\ last.calls \cap BackendOps = {}
        /\ ~k.open

\* after a failed construction, update_paths was given a path to watch
C2_Witness ==
    ConstructionFailed /\ last.op = "update_paths" /\ fac.paths = <<"a/x">>

\* C3: the strategy _maybe_enable_inotify selects is Native exactly when
\* enabled is true, the platform is linux and a backend could be built;
\* the library backend is tried first and the direct-syscall backend only
\* after it failed; with enabled false (or off linux) nothing is tried.
C3_InitialStrategy ==
    /\ ctor.selected <=> (fac.enabled /\ ctor.platform = "linux"
                           /\ (ctor.simpleOk \/ ctor.ctypesOk))
    /\ (~fac.enabled \/ ctor.platform # "linux") => ctor.attempts = <<>>
    /\ (fac.enabled /\ ctor.platform = "linux") =>
          ctor.attempts = IF ctor.simpleOk THEN <<"simple">> ELSE <<"simple", "ctypes">>
    /\ ctor.selected => iw.backend = IF ctor.simpleOk THEN "simple" ELSE "ctypes"
    /\ (last.op = "init" /\ ~last.wp) =>
          /\ fac.use_inotify = ctor.selected
          /\ fac.inotify = ctor.selected
          /\ ("InotifyWaiter" \in last.calls) = ctor.selected

\* the constructor has just returned a Native facade on the direct-syscall
\* backend, the library backend having failed
C3_Witness ==
    /\ last.op = "init" /\ fac.use_inotify /\ fac.inotify
    /\ ~ctor.simpleOk /\ iw.backend = "ctypes"

\* C4: a facade wait in which the watcher's wait raised does not raise; it
\* has closed and dropped the watcher, set the strategy to Polling, slept
\* in the poller and returned the poller's result (false).  And whenever
\* the strategy is Polling the facade holds no watcher.
C4_WaitFailureDemotes ==
    /\ (last.op = "wait" /\ last.nraised) =>
          /\ ~last.raised
          /\ "close" \in last.calls /\ ~k.open /\ k.watches = {} /\ iw.wds = {}
          /\ ~fac.inotify /\ ~fac.use_inotify
          /\ last.polled /\ last.ret = FALSE
    /\ ~fac.use_inotify => ~fac.inotify

\* a wait with a positive timeout whose watcher raised on a queue that
\* held events
C4_Witness ==
    last.op = "wait" /\ last.nraised /\ last.slept > 0 /\ "read" \in last.calls

\* C5: update_paths(P) does not raise and leaves P without its empty
\* entries as the facade's paths.  Called on a Native facade it goes through
\* watch_paths (the watcher then tracks exactly these paths), and when
\* watch_paths raises the watcher is closed and dropped and the strategy is
\* Polling; called on a facade without a usable watcher it makes no backend
\* call.
C5_UpdatePaths ==
    last.op = "update_paths" =>
        /\ ~last.raised
        /\ fac.paths = SelectSeq(last.arg, LAMBDA p : p # "")
        /\ (last.native /\ ~last.wp) =>
              /\ fac.use_inotify /\ fac.inotify
              /\ iw.tracked_files = fac.paths
              /\ (fac.paths # <<>> => "add_watch" \in last.calls)
        /\ (last.native /\ last.wp) =>
              /\ ~fac.use_inotify /\ ~fac.inotify
              /\ "close" \in last.calls /\ ~k.open /\ iw.wds = {}
        /\ ~last.native => last.calls = {}

\* update_paths with an empty entry among the paths, on a Native facade,
\* whose watch_paths raised
C5_Witness ==
    /\ last.op = "update_paths" /\ last.native /\ last.wp
    /\ last.arg = <<"", "a/x">> /\ fac.paths = <<"a/x">>

\* C6: overflowed is true only if the strategy is Native, the watcher is
\* held and this watcher processed a queue-overflow event; under Polling
\* it is false.
C6_OverflowedOnlyNative ==
    /\ Overflowed(World) => (fac.use_inotify /\ fac.inotify /\ hist.ovf)
    /\ ~fac.use_inotify => ~Overflowed(World)

\* right after the demotion of a watcher whose overflow flag was set
C6_Witness ==
    /\ last.op = "wait" /\ last.nraised /\ ~fac.use_inotify
    /\ iw.overflowed /\ ~Overflowed(World)

(***************************************************************************)
(* The watcher's handling of event batches (SpecEvents).                   *)
(***************************************************************************)
\* the last call was a wait that the watcher served without raising
NativeWaitDone == last.op = "wait" /\ last.native /\ ~last.nraised

\* event ev is a directory-scoped event naming the child at path p
Names(ev, p) ==
    /\ ev.name = Name(p)
    /\ \E e \in iw.wds : e.wd = ev.wd /\ e.kind = "dir" /\ e.path = Parent(p)

\* _wds has a file-kind entry for p whose descriptor is a live watch on the
\* file now at p
FileWatched(p) ==
    \E e \in iw.wds : /\ e.kind = "file" /\ e.path = p
                       /\ \E x \in k.watches : x.wd = e.wd /\ x.ino = p

\* C7: a wait that processed a batch holding an overflow event, at whatever
\* position and among whatever other events, has set overflowed and
\* returned true.
C7_OverflowAnywhereInBatch ==
    (NativeWaitDone /\ \E i \in 1..Len(last.events) :
                           last.events[i].mask \cap MASK_Q_OVERFLOW # {})
        => (last.ret /\ iw.overflowed /\ Overflowed(World))

\* C8: under the Native strategy no write to a tracked file that existed
\* and got its watches is left without a wake: as long as no wait has
\* returned true since the write, an event is queued that will make the
\* next wait return true.  (No call failed and the kernel dropped no event.)
C8_EveryWriteWakes ==
    \A p \in hist.unwoken \cap hist.estab :
        (Native(World) /\ ~hist.lossy) => k.queue # <<>>

\* C9: after a rotation of a tracked file, a wait whose batch holds a
\* directory-scoped event naming the file, at whatever position, leaves the
\* file now at the path with a live file watch.  (No call failed and the
\* kernel dropped no event.)
C9_RotationRefreshes ==
    \A p \in hist.rotated :
        (/\ NativeWaitDone /\ ~hist.lossy /\ Exists(fs, p)
         /\ \E i \in 1..Len(last.events) : Names(last.events[i], p))
            => FileWatched(p)

\* C10: when the only watched path did not exist at watch time, a write to
\* the file created there is not left without a wake, and the wait whose
\* batch holds the creation event leaves the new file with a live file
\* watch.  (No call failed and the kernel dropped no event.)
C10_CreatedFileIsWatched ==
    \A p \in hist.absent :
        (Native(World) /\ ~hist.lossy) =>
            /\ p \in hist.unwoken => k.queue # <<>>
            /\ (/\ NativeWaitDone /\ Exists(fs, p)
                /\ \E i \in 1..Len(last.events) :
                      /\ Names(last.events[i], p)
                      /\ last.events[i].mask \cap MASK_CREATE # {})
                  => FileWatched(p)

(***************************************************************************)
(* SpecWatch: watch_paths over path sets with a directory, two files and   *)
(* repeated entries, with add_watch calls that fail.                       *)
(***************************************************************************)
WatchLists ==
    {<<>>, <<"a">>, <<"a/x">>, <<"a/y", "a/x">>, <<"a", "a/x">>, <<"a/x", "a/x">>}

\* the sets of paths whose add_watch fails in one call
AddFailures == {{}, {"a"}, {"a/x"}, {"a", "a/x"}, {"/", "a"}}

InitWatch ==
    Constructed([Children -> {"none", "file"}], WatchLists, {TRUE}, PollIntervals,
                {"linux"}, {TRUE}, Outcomes(AddFailures, {FALSE}, {FALSE}, {FALSE}))

NextWatch ==
    \/ DoUpdatePaths(WatchLists, Outcomes(AddFailures, {FALSE}, {FALSE}, {FALSE}))
    \/ EnvCreate(Children)
    \/ EnvDelete(Children)

SpecWatch == InitWatch /\ [][NextWatch]_vars

\* the last call ran watch_paths and it returned
WatchPathsDone ==
    last.op \in {"init", "update_paths"} /\ last.native /\ ~last.wp

\* _wds records a live kernel watch on path p or on its parent directory
WatchCovers(p) ==
    \E e \in iw.wds : /\ e.path \in {p, Parent(p)}
                       /\ \E x \in k.watches : x.wd = e.wd /\ x.ino = e.path

\* C11 as stated: right after watch_paths(P) every path of P that exists
\* has a live watch in _wds, on itself or on its parent.
C11_EveryExistingPathCovered ==
    WatchPathsDone =>
        \A i \in 1..Len(fac.paths) :
            Exists(fs, fac.paths[i]) => WatchCovers(fac.paths[i])

\* C11 amended: right after watch_paths(P) every path of P that exists has
\* a live watch in _wds, on itself or on its parent, unless add_watch
\* failed both for the path and for its parent (the failures are swallowed)
\* or the descriptors ran out.
C11_CoveredUnlessBothAddsFailed ==
    (WatchPathsDone /\ k.next <= MaxWd) =>
        \A i \in 1..Len(fac.paths) :
            (/\ Exists(fs, fac.paths[i])
             /\ ~({fac.paths[i], Parent(fac.paths[i])} \subseteq last.addFail))
                => WatchCovers(fac.paths[i])

\* watch_paths over a directory and a file in it returned; add_watch failed
\* on the directory, and the file is covered by its own watch only
C11_Witness ==
    /\ WatchPathsDone /\ k.next <= MaxWd
    /\ fac.paths = <<"a", "a/x">> /\ last.addFail = {"a"}
    /\ Exists(fs, "a/x") /\ WatchCovers("a/x") /\ WatchCovers("a")

(***************************************************************************)
(* The poller (Spec, SpecPoll).                                            *)
(***************************************************************************)
\* C12: a facade wait that went to the poller, the facade polling from the
\* start or demoted during this very call, returned false and did not
\* raise; and in every state AdaptivePollWaiter.wait returns false for
\* every timeout, as does the wait of a facade that is not Native.
C12_PollingWaitReturnsFalse ==
    /\ (last.op = "wait" /\ last.polled) => (last.ret = FALSE /\ ~last.raised)
    /\ (last.op = "wait" /\ ~last.native) => last.polled
    /\ \A t \in {-1, 0, 1, 6, 20} :
          /\ PollWait(fac.poll, t).ret = FALSE
          /\ ~Native(World) => FacadeWait(World, t, [addFail |-> {}, rmFail |-> FALSE,
                                     readFail |-> FALSE, wpRaise |-> FALSE]).ret = FALSE

\* a polling facade has waited, with a positive timeout, after the tracked
\* file was written behind a watcher that the facade has dropped since,
\* the interval having grown
C12_Witness ==
    /\ last.op = "wait" /\ ~last.native /\ last.polled /\ last.timeout > 0
    /\ ctor.selected /\ ~fac.use_inotify /\ Exists(fs, "a/x")
    /\ fac.poll.current > fac.poll.base

(***************************************************************************)
(* SpecPoll: a facade that polls from the start, over several base         *)
(* intervals, below, at and above the default maximum, and timeouts below  *)
(* and above the intervals.  With these bases every product by 1.5 below   *)
(* the maximum is a whole number of units.                                 *)
(***************************************************************************)
PollBases == {0, 4, 8, 12}
PollTimeouts == {-1, 0, 3, 6, 20}

InitPoll ==
    Constructed([Children -> {"none", "file"}], {<<"a/x">>}, {FALSE}, PollBases,
                {"linux"}, {TRUE}, NoFailure)

NextPoll ==
    \/ Wait(PollTimeouts, NoFailure)
    \/ DoResetBackoff
    \/ EnvCreate(Tracked)
    \/ EnvWrite(Tracked)
    \/ EnvDelete(Tracked)

SpecPoll == InitPoll /\ [][NextPoll]_vars

\* C13: base <= current <= max in every state; the interval starts at base
\* and reset() puts it back there; a wait with a positive timeout sleeps
\* min(timeout, current) and then multiplies the interval by 1.5, capped at
\* max; no wait makes the interval, and with it the sleep of the next wait
\* with the same timeout, smaller.
C13_BackoffSequence ==
    /\ [](/\ fac.poll.base <= fac.poll.current /\ fac.poll.current <= fac.poll.max
          /\ last.op \in {"init", "reset_backoff"} => fac.poll.current = fac.poll.base)
    /\ [][last'.op = "wait" =>
            /\ last'.timeout > 0 =>
                  /\ last'.slept = Min(last'.timeout, fac.poll.current)
                  /\ IF 3 * fac.poll.current <= 2 * fac.poll.max
                     THEN 2 * fac'.poll.current = 3 * fac.poll.current
                     ELSE fac'.poll.current = fac.poll.max
            /\ fac'.poll.current >= fac.poll.current
            /\ Min(last'.timeout, fac'.poll.current) >= Min(last'.timeout, fac.poll.current)
            /\ fac'.poll.base = fac.poll.base /\ fac'.poll.max = fac.poll.max]_vars

\* the interval has grown from base 4 through 6 and 9 to the cap 10, and
\* the wait that found it at 9 slept 9
C13_Witness ==
    /\ last.op = "wait" /\ last.timeout = 20 /\ last.slept = 9
    /\ fac.poll.base = 4 /\ fac.poll.current = 10 /\ fac.poll.max = 10

\* C14: every wait of the poller sleeps min(max(0, timeout), current
\* interval), the interval being the one the wait found: never longer than
\* the requested timeout, whatever the interval has grown to.
C14_SleepWithinTimeout ==
    /\ [](last.op = "wait" => (last.slept >= 0 /\ last.slept <= Max(0, last.timeout)))
    /\ [][(last'.op = "wait" /\ last'.polled) =>
             last'.slept = Min(Max(0, last'.timeout), fac.poll.current)]_vars

\* a wait with timeout 3 on an interval that has grown to its maximum 10
\* slept 3
C14_Witness ==
    /\ last.op = "wait" /\ last.polled /\ last.timeout = 3 /\ last.slept = 3
    /\ fac.poll.current = 10 /\ fac.poll.base = 4

\* C15: a wait with a negative timeout does not raise and does what a wait
\* with timeout 0 does, under both strategies and also when the read fails:
\* same result, same state.  The backend's read is handed 0 ms, the poller
\* sleeps 0, and a wait with a timeout <= 0 leaves the poller as it was.
C15_NegativeTimeoutAsZero ==
    /\ [](/\ \A o \in Outcomes({{}}, {FALSE}, BOOLEAN, {FALSE}) :
                FacadeWait(World, -1, o) = FacadeWait(World, 0, o)
          /\ (last.op = "wait" /\ last.timeout <= 0) =>
                (~last.raised /\ last.ms = 0 /\ last.slept = 0))
    /\ [][(last'.op = "wait" /\ last'.timeout <= 0) => fac'.poll = fac.poll]_vars

\* a wait with timeout -1 went through both strategies: the watcher's read
\* was handed 0 ms and raised, the poller then slept 0 on an interval that
\* had room to grow
C15_Witness ==
    /\ last.op = "wait" /\ last.timeout = -1
    /\ last.native /\ last.nraised /\ last.polled
    /\ last.ms = 0 /\ last.slept = 0 /\ fac.poll.current < fac.poll.max

(***************************************************************************)
(* SpecClose: the three close() methods, called on the facade, on the      *)
(* watcher and on the backend, any number of times, with the process       *)
(* opening other files in between; the direct-syscall constructor may fail *)
(* after it opened its descriptor.                                         *)
(***************************************************************************)
\* InotifyWaiter.close called on the watcher itself
CloseWatcher(outcomes) ==
    \E o \in outcomes :
        /\ iw.backend # "none"
        /\ \E w \in {WatcherClose(World, o)} :
              /\ Install(w)
              /\ last' = [NoLast EXCEPT !.op = "close_watcher", !.calls = w.calls,
                                        !.rmFail = o.rmFail]
              /\ hist' = NoHist
              /\ UNCHANGED ctor

\* close called on the backend itself
CloseBackend ==
    /\ iw.backend # "none"
    /\ \E w \in {BackendClose(World)} :
          /\ Install(w)
          /\ last' = [NoLast EXCEPT !.op = "close_backend", !.calls = w.calls]
          /\ hist' = NoHist
          /\ UNCHANGED ctor

\* the process opens a file: the kernel hands out the lowest free
\* descriptor number, the one the closed inotify instance had
EnvOpen ==
    /\ iw.backend # "none" /\ ~k.open /\ k.other = "none"
    /\ k' = [k EXCEPT !.other = "open"]
    /\ last' = [NoLast EXCEPT !.op = "env"]
    /\ UNCHANGED <<fs, iw, fac, ctor, hist>>

RmFailures == Outcomes({{}}, BOOLEAN, {FALSE}, {FALSE})
WatchPathsFailures == Outcomes({{}}, {FALSE}, {FALSE}, BOOLEAN)

InitClose ==
    ConstructedWith([Children -> {"none", "file"}], {<<"a/x">>}, {TRUE}, PollIntervals,
                    {"linux"}, BOOLEAN, BOOLEAN, NoFailure)

NextClose ==
    \/ Close(RmFailures)
    \/ CloseWatcher(RmFailures)
    \/ CloseBackend
    \/ EnvOpen
    \/ DoUpdatePaths({<<"a/x">>}, WatchPathsFailures)
    \/ EnvWrite(Tracked)
    \/ EnvDelete(Tracked)

SpecClose == InitClose /\ [][NextClose]_vars

\* the object the last call closed had been closed before that call
ClosedBefore ==
    \/ last'.op = "close" /\ ~fac.inotify
    \/ last'.op = "close_watcher" /\ iw.wds = {} /\ ~k.open
    \/ last'.op = "close_backend" /\ ~k.open

\* C16: close() called again on a FileChangeWaiter, an InotifyWaiter or a
\* backend that was closed before does not raise and changes nothing: the
\* state after the second call is the state after the first.
C16_SecondCloseChangesNothing ==
    [][ClosedBefore => (~last'.raised /\ fs' = fs /\ k' = k /\ iw' = iw /\ fac' = fac)]_vars

\* C17: whenever the facade holds no watcher (construction of the backend
\* failed, the facade was demoted, close() was called) no inotify
\* descriptor it opened is still open and no watch is live.
C17_NoChannelLeftOpen ==
    ~fac.inotify => (~k.open /\ k.watches = {})

\* what the underlying facility may do to one backend call
BackendFailures == Outcomes({{}}, BOOLEAN, BOOLEAN, {FALSE})

\* C18: from the same state and under the same outcome of the underlying
\* facility, rm_watch, read and close of the direct-syscall backend and of
\* the library backend leave the same state, return the same events and
\* raise in the same cases (add_watch is one operator for both).
C18_BackendsEquivalent ==
    iw.backend # "none" =>
        \A o \in BackendFailures, wd \in 0..MaxWd :
            /\ CtypesRmWatch(World, wd, o) = SimpleRmWatch(World, wd, o)
            /\ CtypesRead(World, o) = SimpleRead(World, o)
            /\ CtypesClose(World) = SimpleClose(World)

\* C19: a native wait that did not raise returns false exactly when the
\* backend's read gave no event; every non-empty batch gives true, also
\* when none of its events is an overflow, a self or a named event and when
\* its names match no tracked file.
C19_FalseIffEmptyBatch ==
    NativeWaitDone => (last.ret <=> last.events # <<>>)

\* a batch of nameless events only, none of them an overflow or self event,
\* ran the loop to its end
C19_Witness ==
    /\ NativeWaitDone /\ last.ret
    /\ last.events # <<>> /\ last.at = 0

\* event ev is an overflow event or a self-move/self-delete event
EndsBatch(ev) ==
    ev.mask \cap (MASK_Q_OVERFLOW \cup MASK_MOVE_SELF \cup MASK_DELETE_SELF) # {}

\* the number of the first event of a batch that satisfies P, 0 when none does
FirstOf(events, P(_)) ==
    IF \E i \in 1..Len(events) : P(events[i])
    THEN CHOOSE i \in 1..Len(events) :
            P(events[i]) /\ \A j \in 1..(i - 1) : ~P(events[j])
    ELSE 0

\* the batch up to and including its first overflow or self event, the
\* whole batch when it has none
UpToFirstEnd(events) ==
    IF FirstOf(events, EndsBatch) = 0 THEN events
    ELSE SubSeq(events, 1, FirstOf(events, EndsBatch))

\* the world a native wait leaves when the backend's read gives only the
\* events of UpToFirstEnd
WaitOverPrefix(w, o) ==
    Bind(Read(w, o), LAMBDA r :
        ProcessEvents(r.w, UpToFirstEnd(r.events), 1, o).w)

\* C20: in a native wait over a non-empty batch the events are examined in
\* the order read: the loop ends at the first event that is an overflow
\* event, a self event or a named event; and the handle map, the kernel's
\* watches and the overflow flag come out as if the batch had ended with
\* its first overflow or self event: no later event changes them.
C20_FirstEndingEventEndsBatch ==
    [][(last'.op = "wait" /\ last'.native /\ ~last'.nraised /\ last'.events # <<>>) =>
          /\ last'.at = FirstOf(last'.events, LAMBDA ev : EndsBatch(ev) \/ ev.name # "")
          /\ \A o \in NoFailure :
                /\ iw' = WaitOverPrefix(World, o).iw
                /\ k'.watches = WaitOverPrefix(World, o).k.watches]_vars

\* a batch ended at an overflow or self event that was not its last event
C20_Witness ==
    /\ NativeWaitDone /\ last.at > 0 /\ last.at < Len(last.events)
    /\ EndsBatch(last.events[last.at])

(***************************************************************************)
(* The refresh of a file's watch inside wait (SpecEvents).                 *)
(***************************************************************************)
\* the file-kind entries of _wds for path p
FileEntries(wds, p) == {e \in wds : e.kind = "file" /\ e.path = p}

\* this step is a native wait whose loop ended at a self-move or self-delete
\* event on a descriptor that _wds maps to a file-kind entry for p
SelfEventOnFile(p) ==
    /\ last'.op = "wait" /\ last'.native /\ ~last'.nraised /\ last'.at > 0
    /\ last'.events[last'.at].mask \cap MASK_Q_OVERFLOW = {}
    /\ last'.events[last'.at].mask \cap (MASK_MOVE_SELF \cup MASK_DELETE_SELF) # {}
    /\ \E e \in FileEntries(iw.wds, p) : e.wd = last'.events[last'.at].wd

\* C21: when wait handles a self-move or self-delete event on a file-kind
\* entry for p, every file-kind entry _wds had for p is gone after the call
\* and rm_watch was called; a file-kind entry for p is present afterwards
\* exactly when p exists and add_watch succeeded (a descriptor was left).
C21_SelfEventReplacesEntries ==
    [][\A p \in Children : SelfEventOnFile(p) =>
          /\ FileEntries(iw.wds, p) \cap iw'.wds = {}
          /\ "rm_watch" \in last'.calls
          /\ FileEntries(iw'.wds, p) # {} <=> (Exists(fs', p) /\ k.next <= MaxWd)]_vars

(***************************************************************************)
(* SpecNames: named directory events over several tracked paths, with the  *)
(* directory a watched itself, through its parent, or not at all, and      *)
(* events left in the queue by watches a later watch_paths removed.        *)
(***************************************************************************)
\* a file named x is created in the root directory, next to the directory a
EnvCreateInRoot ==
    /\ k.open
    /\ k' = Queue(k, EventsFor(k, Root, "CREATE", "x"))
    /\ last' = [NoLast EXCEPT !.op = "env"]
    /\ hist' = [hist EXCEPT !.lossy = @ \/ Lossy(k')]
    /\ UNCHANGED <<fs, iw, fac, ctor>>

NameLists == {<<"a/x">>, <<"a", "a/x">>, <<"a/y", "a/x">>}
DirAddFailures == Outcomes({{}, {"a"}}, {FALSE}, {FALSE}, {FALSE})

InitNames ==
    Constructed([Children -> {"none", "file"}], NameLists, {TRUE}, PollIntervals,
                {"linux"}, {TRUE}, DirAddFailures)

NextNames ==
    \/ Wait({0}, NoFailure)
    \/ DoUpdatePaths(NameLists, DirAddFailures)
    \/ EnvCreate(Children)
    \/ EnvDelete(Children)
    \/ EnvCreateInRoot

SpecNames == InitNames /\ [][NextNames]_vars

\* this step is a native wait whose loop ended at a named event
NamedEventStep ==
    /\ last'.op = "wait" /\ last'.native /\ ~last'.nraised /\ last'.at > 0
    /\ ~EndsBatch(last'.events[last'.at])
    /\ last'.events[last'.at].name # ""

\* the tracked files event ev may refresh: those named ev.name whose parent
\* is the directory ev.wd resolves to, or any parent when it resolves to
\* nothing
MayRefresh(ev) ==
    {p \in AllPaths :
        /\ \E i \in 1..Len(iw.tracked_files) : iw.tracked_files[i] = p
        /\ Name(p) = ev.name
        /\ \/ ~\E e \in iw.wds : e.wd = ev.wd
           \/ \E e \in iw.wds : e.wd = ev.wd /\ e.path = Parent(p)}

\* C22: a named event refreshes the watch of a tracked file only if the
\* file's name is the event's name and its parent is the directory the
\* event's descriptor resolves to; when the descriptor resolves to no entry
\* a tracked file with that name is refreshed whatever its parent; when no
\* tracked file qualifies nothing is refreshed.
C22_NamedEventRefreshesMatchingFile ==
    [][NamedEventStep =>
          \A o \in NoFailure :
              IF MayRefresh(last'.events[last'.at]) = {}
              THEN iw' = iw /\ k'.watches = k.watches
              ELSE \E p \in MayRefresh(last'.events[last'.at]) :
                      /\ iw' = RefreshFileWatch(Read(World, o).w, p, o).iw
                      /\ k' = RefreshFileWatch(Read(World, o).w, p, o).k]_vars

\* a named event on a descriptor that resolves to no entry refreshed a/x
C22_Witness ==
    /\ NativeWaitDone /\ last.at > 0
    /\ last.events[last.at].name = "x"
    /\ ~\E e \in iw.wds : e.wd = last.events[last.at].wd
    /\ "add_watch" \in last.calls

(***************************************************************************)
(* SpecRefresh: waits during which add_watch on the tracked file or        *)
(* rm_watch may fail.                                                      *)
(***************************************************************************)
RefreshFailures == Outcomes({{}, {"a/x"}}, BOOLEAN, {FALSE}, {FALSE})

InitRefresh ==
    Constructed([Children -> {"none", "file"}], {<<"a/x">>}, {TRUE}, PollIntervals,
                {"linux"}, BOOLEAN, NoFailure)

NextRefresh ==
    \/ Wait({0}, RefreshFailures)
    \/ EnvCreate(Tracked)
    \/ EnvWrite(Tracked)
    \/ EnvCloseWrite(Tracked)
    \/ EnvDelete(Tracked)
    \/ EnvMoveInto(Tracked)

SpecRefresh == InitRefresh /\ [][NextRefresh]_vars

\* the last call was a native wait in which _refresh_file_watch called
\* add_watch or rm_watch and the call failed
RefreshCallFailed ==
    /\ last.op = "wait" /\ last.native
    /\ \/ "add_watch" \in last.calls /\ "a/x" \in last.addFail
       \/ "rm_watch" \in last.calls /\ last.rmFail

\* C23: after a wait in which add_watch or rm_watch failed while a file's
\* watch was being refreshed, the facade is Polling.
C23_RefreshFailureDemotes ==
    RefreshCallFailed => (~fac.use_inotify /\ ~fac.inotify)

(***************************************************************************)
(* What watch_paths establishes (SpecWatch).                               *)
(***************************************************************************)
\* the (kind, path) pairs _watch_one records for path p when add_watch
\* succeeds
WatchesOf(fsys, p) ==
    IF Exists(fsys, p) /\ IsDir(fsys, p) THEN {<<"dir", p>>}
    ELSE IF Exists(fsys, p) THEN {<<"dir", Parent(p)>>, <<"file", p>>}
    ELSE {<<"dir", Parent(p)>>}

\* the last call ran watch_paths, it returned and no add_watch failed
WatchPathsSucceeded ==
    WatchPathsDone /\ last.addFail = {} /\ k.next <= MaxWd

\* C24: with add_watch succeeding, after watch_paths(P) _wds holds exactly
\* the entries of the cases of the paths of P: (dir, p) alone for an
\* existing directory p, (dir, parent) and (file, p) for an existing file,
\* (dir, parent) alone for a path that does not exist; each entry on its
\* own descriptor, live in the kernel on that object with the mask of its
\* kind.
C24_WatchesByCase ==
    WatchPathsSucceeded =>
        /\ {<<e.kind, e.path>> : e \in iw.wds}
              = UNION {WatchesOf(fs, fac.paths[i]) : i \in 1..Len(fac.paths)}
        /\ \A e, f \in iw.wds : e.wd = f.wd => e = f
        /\ \A e \in iw.wds :
              \E x \in k.watches :
                 /\ x.wd = e.wd /\ x.ino = e.path
                 /\ x.mask = IF e.kind = "dir" THEN DIR_MASK ELSE FILE_MASK

\* watch_paths over the directory a and a file that does not exist
C24_Witness ==
    /\ WatchPathsSucceeded /\ last.op = "update_paths"
    /\ fac.paths = <<"a", "a/x">> /\ ~Exists(fs, "a/x")
    /\ iw.wds # {}

\* the (kind, path) pairs _watch_one can record for path p, whichever of
\* its add_watch calls fail
EntriesFor(p) == {<<"dir", p>>, <<"dir", Parent(p)>>, <<"file", p>>}

\* this step is an update_paths in which watch_paths ran and returned
WatchPathsStep ==
    last'.op = "update_paths" /\ last'.native /\ ~last'.wp

\* C25: watch_paths(P) replaces the state wholesale: no descriptor held
\* before the call is a live watch or an entry of _wds after it, every
\* entry of _wds after it is one of the entries of a path of P, and
\* _tracked_files has exactly one key per path of P.
C25_WatchPathsReplacesAll ==
    [][WatchPathsStep =>
          /\ iw.wds # {} => "rm_watch" \in last'.calls
          /\ \A e \in iw.wds :
                /\ ~\E x \in k'.watches : x.wd = e.wd
                /\ ~\E f \in iw'.wds : f.wd = e.wd
          /\ \A f \in iw'.wds :
                <<f.kind, f.path>> \in
                    UNION {EntriesFor(fac'.paths[i]) : i \in 1..Len(fac'.paths)}
          /\ {iw'.tracked_files[i] : i \in 1..Len(iw'.tracked_files)}
                = {fac'.paths[i] : i \in 1..Len(fac'.paths)}
          /\ \A i, j \in 1..Len(iw'.tracked_files) :
                iw'.tracked_files[i] = iw'.tracked_files[j] => i = j]_vars

\* watch_paths over the file a/x replaced watches that were held before:
\* the directory a is watched under a descriptor handed out after the first
C25_Witness ==
    /\ WatchPathsDone /\ last.op = "update_paths" /\ "rm_watch" \in last.calls
    /\ fac.paths = <<"a/x">> /\ iw.tracked_files = <<"a/x">>
    /\ \E e \in iw.wds : e.path = "a" /\ e.wd > 1

(***************************************************************************)
(* SpecWatchFail: watch_paths with add_watch failing for some paths and    *)
(* rm_watch failing, on either backend.                                    *)
(***************************************************************************)
SomeAddFailures == {{}, {"a"}, {"a/y"}}
WatchFailures == Outcomes(SomeAddFailures, BOOLEAN, {FALSE}, {FALSE})
FailLists == {<<"a/y", "a/x">>, <<"a", "a/x">>}

InitWatchFail ==
    Constructed([Children -> {"none", "file"}], FailLists, {TRUE}, PollIntervals,
                {"linux"}, BOOLEAN, Outcomes(SomeAddFailures, {FALSE}, {FALSE}, {FALSE}))

NextWatchFail ==
    \/ DoUpdatePaths(FailLists, WatchFailures)
    \/ EnvCreate(Children)

SpecWatchFail == InitWatchFail /\ [][NextWatchFail]_vars

\* _wds has an entry (kind, path) whose descriptor is a live watch on path
Established(kind, path) ==
    \E e \in iw.wds : /\ e.kind = kind /\ e.path = path
                       /\ \E x \in k.watches : x.wd = e.wd /\ x.ino = path

\* C26: watch_paths does not raise when add_watch or rm_watch fails, and a
\* path of the set for which no add_watch failed (on itself or on its
\* parent) has all the watches of its case.
C26_FailuresLeaveOtherPaths ==
    (last.op \in {"init", "update_paths"} /\ last.native) =>
        /\ ~last.raised /\ ~last.wp
        /\ k.next <= MaxWd =>
              \A i \in 1..Len(fac.paths) :
                 {fac.paths[i], Parent(fac.paths[i])} \cap last.addFail = {} =>
                     \A c \in WatchesOf(fs, fac.paths[i]) : Established(c[1], c[2])

\* add_watch failed for a/y and rm_watch failed; a/x, later in the set, has
\* its parent and file watches
C26_Witness ==
    /\ last.op = "update_paths" /\ last.native /\ k.next <= MaxWd
    /\ fac.paths = <<"a/y", "a/x">> /\ last.addFail = {"a/y"} /\ last.rmFail
    /\ "rm_watch" \in last.calls
    /\ Exists(fs, "a/y") /\ ~Established("file", "a/y")
    /\ Established("dir", "a") /\ Established("file", "a/x")

(***************************************************************************)
(* The handle map against the kernel's watches (SpecRefresh).              *)
(***************************************************************************)
\* each watch that is live in the kernel has exactly one entry in _wds
LiveHandlesMapped ==
    \A x \in k.watches :
        /\ \E e \in iw.wds : e.wd = x.wd
        /\ \A e, f \in iw.wds : (e.wd = x.wd /\ f.wd = x.wd) => e = f
        /\ \A y \in k.watches : y.wd = x.wd => y = x

\* in this step a descriptor the kernel issues (live after the step, not
\* before) has no entry in _wds before the step
IssuedHandlesUnmapped ==
    \A x \in k'.watches :
        (~\E y \in k.watches : y.wd = x.wd) => ~\E e \in iw.wds : e.wd = x.wd

GoneHandles ==
    IF k.open THEN {wd \in 1..MaxWd : wd < k.next /\ ~\E x \in k.watches : x.wd = wd}
    ELSE {}

\* C28: rm_watch on a descriptor that is gone does not raise and changes
\* nothing (the kernel's watches and queue, _wds), in either backend.
C28_RmWatchOnGoneHandle ==
    \A wd \in GoneHandles, o \in NoFailure :
        /\ CtypesRmWatch(World, wd, o) = [w |-> Called(World, "rm_watch"), ok |-> TRUE]
        /\ SimpleRmWatch(World, wd, o) = [w |-> Called(World, "rm_watch"), ok |-> TRUE]

\* a wait refreshed the watch of a file that had been deleted and created
\* again: it called rm_watch on the descriptor the kernel had dropped (no
\* IN_IGNORED was queued by the call) and did not raise
C28_Witness ==
    /\ NativeWaitDone /\ "rm_watch" \in last.calls /\ k.queue = <<>>
    /\ GoneHandles # {}

(***************************************************************************)
(* SpecDecode: the decoding loop of _CtypesInotifyBackend.read over the    *)
(* bytes os.read returned.  A buffer is a sequence of bytes 0..255; the    *)
(* kernel writes struct inotify_event records: wd (signed), mask, cookie,  *)
(* len, each 4 bytes in the byte order of the host (little-endian), then   *)
(* len bytes of name padded with NULs.  Text is a sequence of code points. *)
(***************************************************************************)
\* struct.calcsize("iIII")
HeaderSize == 16

\* the 4 bytes of the 32-bit number n, two's complement when n < 0 (\div
\* rounds down)
LE32(n) == <<n % 256, (n \div 256) % 256, (n \div 65536) % 256, (n \div 16777216) % 256>>

\* struct "I" at offset off (0-based); the records of the model keep mask,
\* cookie and len below 2^31
U32(data, off) ==
    data[off + 1] + 256 * data[off + 2] + 65536 * data[off + 3] + 16777216 * data[off + 4]

\* struct "i" at offset off: the top bit is the sign
I32(data, off) ==
    data[off + 1] + 256 * data[off + 2] + 65536 * data[off + 3]
        + 16777216 * (IF data[off + 4] >= 128 THEN data[off + 4] - 256 ELSE data[off + 4])

\* data[a : b], a Python slice: clamped to the end of data
Slice(data, a, b) ==
    IF a >= Len(data) THEN <<>> ELSE SubSeq(data, a + 1, IF b <= Len(data) THEN b ELSE Len(data))

\* raw_name.split(b"\x00", 1)[0]: the bytes before the first NUL
BeforeNul(raw) ==
    IF \E i \in 1..Len(raw) : raw[i] = 0
    THEN SubSeq(raw, 1, (CHOOSE i \in 1..Len(raw) :
                            raw[i] = 0 /\ \A j \in 1..(i - 1) : raw[j] # 0) - 1)
    ELSE raw

\* bytes.decode("utf-8", errors="ignore") over ASCII bytes and bytes that
\* belong to no UTF-8 sequence (0xF8..0xFF): the latter are dropped
DecodeIgnore(bytes) == SelectSeq(bytes, LAMBDA b : b < 128)

\* os.fsdecode: the text that stands for the bytes of a file name (a byte
\* that is no UTF-8 becomes the surrogate U+DC00 + byte)
FsDecode(bytes) == [i \in 1..Len(bytes) |-> IF bytes[i] < 128 THEN bytes[i] ELSE 56320 + bytes[i]]

\* the while loop of read from offset on: the events appended
RECURSIVE ParseFrom(_, _)
ParseFrom(data, offset) ==
    IF offset + HeaderSize > Len(data) THEN <<>>
    ELSE Bind(U32(data, offset + 12), LAMBDA name_len :
         Bind([wd |-> I32(data, offset), mask |-> U32(data, offset + 4),
               cookie |-> U32(data, offset + 8),
               name |-> IF name_len # 0
                        THEN DecodeIgnore(BeforeNul(Slice(data, offset + HeaderSize,
                                                          offset + HeaderSize + name_len)))
                        ELSE <<>>], LAMBDA ev :
             <<ev>> \o ParseFrom(data, offset + HeaderSize + name_len)))

\* the kernel's bytes for one record r = [wd, mask, cookie, name, pad]
EncodeRecord(r) ==
    LE32(r.wd) \o LE32(r.mask) \o LE32(r.cookie) \o LE32(Len(r.name) + r.pad)
        \o r.name \o [i \in 1..r.pad |-> 0]

RECURSIVE EncodeAll(_)
EncodeAll(rs) ==
    IF rs = <<>> THEN <<>>
    ELSE Bind(EncodeRecord(Head(rs)), LAMBDA h : h \o EncodeAll(Tail(rs)))

\* the records the kernel writes: a create of x, a nameless modify, an
\* overflow (wd -1), a move with a cookie and the name xy, a create of a
\* file whose name is no UTF-8 (0xFF x)
Records ==
    {[wd |-> 1, mask |-> 256, cookie |-> 0, name |-> <<120>>, pad |-> 3],
     [wd |-> 2, mask |-> 2, cookie |-> 0, name |-> <<>>, pad |-> 0],
     [wd |-> -1, mask |-> 16384, cookie |-> 0, name |-> <<>>, pad |-> 0],
     [wd |-> 1, mask |-> 128, cookie |-> 7, name |-> <<120, 121>>, pad |-> 2],
     [wd |-> 1, mask |-> 256, cookie |-> 0, name |-> <<255, 120>>, pad |-> 2]}

RecordSeqs(n) == UNION {[1..m -> Records] : m \in 0..n}

\* os.read returned the first cut bytes of the records rs
InitDecode ==
    \E rs \in RecordSeqs(MaxRecords) :
    \E data \in {EncodeAll(rs)} :
    \E cut \in IF Len(rs) < MaxRecords THEN 0..Len(data) ELSE {Len(data)} :
    \E r \in {Construct([p \in Children |-> "none"], <<>>, TRUE, 4,
                          [platform |-> "linux", simpleOk |-> FALSE, ctypesOk |-> TRUE,
                           ctypesLate |-> FALSE],
                          [addFail |-> {}, rmFail |-> FALSE, readFail |-> FALSE,
                           wpRaise |-> FALSE])} :
        /\ fs = r.w.fs
        /\ k = r.w.k
        /\ iw = r.w.iw
        /\ fac = r.w.fac
        /\ ctor = [platform |-> "linux", simpleOk |-> FALSE, ctypesOk |-> TRUE,
                   late |-> FALSE, attempts |-> r.attempts, selected |-> r.selected]
        /\ last = [op |-> "os.read", records |-> rs, whole |-> cut = Len(data),
                   arg |-> SubSeq(data, 1, cut), events |-> <<>>, raised |-> FALSE]
        /\ hist = NoHist

\* the loop of read over the bytes
Decode ==
    /\ last.op = "os.read"
    /\ last' = [last EXCEPT !.op = "read", !.events = ParseFrom(last.arg, 0)]
    /\ UNCHANGED <<fs, k, iw, fac, ctor, hist>>

NextDecode == Decode

SpecDecode == InitDecode /\ [][NextDecode]_vars

\* the event that stands for record r
EventOf(r) ==
    [wd |-> r.wd, mask |-> r.mask, cookie |-> r.cookie, name |-> FsDecode(r.name)]

\* C29: for a buffer that is a concatenation of well-formed records, read
\* returns one event per record, in order, with the record's wd, mask and
\* cookie and the name that the bytes before the first NUL spell; a record
\* with len 0 gives an empty name and the next record starts right after
\* its header.
C29_OneEventPerRecord ==
    (last.op = "read" /\ last.whole) =>
        /\ ~last.raised
        /\ last.events = [i \in 1..Len(last.records) |-> EventOf(last.records[i])]

\* the number of records of rs that lie whole within the first n bytes
CompleteRecords(rs, n) ==
    CHOOSE m \in 0..Len(rs) :
        /\ Len(EncodeAll(SubSeq(rs, 1, m))) <= n
        /\ \A j \in (m + 1)..Len(rs) : Len(EncodeAll(SubSeq(rs, 1, j))) > n

\* the buffer ends inside the name bytes that the header of its last record
\* announces
CutInsideName ==
    /\ ~last.whole
    /\ Len(last.arg) >= Len(EncodeAll(SubSeq(last.records, 1,
                              CompleteRecords(last.records, Len(last.arg))))) + HeaderSize

\* C30: a buffer that ends inside a header or inside the name bytes
\* announced by a header never makes read raise, and read returns no event
\* for the record that is cut: it returns as many events as there are whole
\* records before the cut.
C30_TruncatedRecordGivesNoEvent ==
    (last.op = "read" /\ ~last.whole) =>
        /\ ~last.raised
        /\ Len(last.events) = CompleteRecords(last.records, Len(last.arg))

\* the part of C30 that the decoding loop keeps: a buffer that ends inside a
\* header gives no event for the record that is cut
C30_CutInsideHeaderGivesNoEvent ==
    (last.op = "read" /\ ~last.whole /\ ~CutInsideName) =>
        /\ ~last.raised
        /\ Len(last.events) = CompleteRecords(last.records, Len(last.arg))

(***************************************************************************)
(* One strategy per wait (Spec).                                           *)
(***************************************************************************)
\* C31: a wait that the watcher serves without raising does not sleep in
\* the poller and leaves the poller as it was; a wait on a facade that is
\* not Native makes no backend call; and the poller's current interval
\* changes only in a wait that called the poller's wait and in
\* reset_backoff.
C31_OneStrategyPerWait ==
    [][/\ (last'.op = "wait" /\ Native(World) /\ ~last'.nraised) =>
              /\ last'.native /\ ~last'.polled /\ last'.slept = 0
              /\ fac'.poll = fac.poll
       /\ (last'.op = "wait" /\ ~Native(World)) =>
              /\ ~last'.native /\ last'.polled
              /\ last'.calls = {}
              /\ k' = k /\ iw' = iw
       /\ (fac'.poll.current # fac.poll.current) =>
              \/ last'.op = "wait" /\ last'.polled
              \/ last'.op = "reset_backoff"]_vars

\* a Native wait with a positive timeout that found no event: it returned
\* false without sleeping in the poller
C31_Witness ==
    /\ last.op = "wait" /\ last.native /\ ~last.nraised /\ ~last.ret
    /\ last.timeout > 0 /\ ~last.polled /\ "read" \in last.calls
    /\ fac.use_inotify /\ fac.inotify

(***************************************************************************)
(* SpecDirs: the directory a tracked itself, next to a file of the root    *)
(* directory that does not exist yet (so that the root directory is        *)
(* watched as its parent), and paths given twice.                          *)
(***************************************************************************)
\* a path in the root directory, next to the directory a; no file is there
RootFile == "b"

DirLists == {<<"a", RootFile>>, <<"a", "a">>, <<"a/x", "a/x">>, <<RootFile, "a/x">>}

\* chmod of the directory a: IN_ATTRIB naming a for the watches of its
\* parent, then IN_ATTRIB for its own watches
EnvChmodDir ==
    /\ k.open
    /\ k' = Queue(k, EventsFor(k, Root, "ATTRIB", "a") \o EventsFor(k, "a", "ATTRIB", ""))
    /\ last' = [NoLast EXCEPT !.op = "env"]
    /\ hist' = [hist EXCEPT !.lossy = @ \/ Lossy(k')]
    /\ UNCHANGED <<fs, iw, fac, ctor>>

InitDirs ==
    Constructed([Children -> {"none", "file"}], DirLists, {TRUE}, PollIntervals,
                {"linux"}, {TRUE}, NoFailure)

NextDirs ==
    \/ Wait({0}, NoFailure)
    \/ DoUpdatePaths(DirLists, NoFailure)
    \/ EnvChmodDir
    \/ EnvCreate(Tracked)
    \/ EnvWrite(Tracked)
    \/ EnvDelete(Tracked)

SpecDirs == InitDirs /\ [][NextDirs]_vars

\* the mask that goes with a kind of watch
MaskOf(kind) == IF kind = "dir" THEN DIR_MASK ELSE FILE_MASK

\* C32: in every state, a kernel watch whose descriptor _wds records with
\* kind "dir" subscribes to exactly the directory mask (created, deleted,
\* moved-to, close-write, attrib) and one recorded with kind "file" to
\* exactly the file mask (modify, attrib, close-write, move-self,
\* delete-self), also for an object that add_watch was called for more than
\* once.
C32_MaskMatchesKind ==
    /\ DIR_MASK = {"CREATE", "DELETE", "MOVED_TO", "CLOSE_WRITE", "ATTRIB"}
    /\ FILE_MASK = {"MODIFY", "ATTRIB", "CLOSE_WRITE", "MOVE_SELF", "DELETE_SELF"}
    /\ \A e \in iw.wds : \A x \in k.watches : x.wd = e.wd => x.mask = MaskOf(e.kind)

\* a wait called add_watch with the file mask for the directory a, which
\* was watched with the directory mask: the kernel gave the same descriptor
\* back, and the entry of the descriptor now says "file"
C32_Witness ==
    /\ NativeWaitDone /\ "add_watch" \in last.calls
    /\ \E e \in iw.wds : /\ e.kind = "file" /\ e.path = "a"
                           /\ \E x \in k.watches : x.wd = e.wd /\ x.ino = "a"
                                                      /\ x.mask = FILE_MASK

(***************************************************************************)
(* The facade after close() (Spec).                                        *)
(***************************************************************************)
\* close() was called on a Native facade: the inotify instance is closed
\* and the native flag, which only a demotion clears, is still set
FacadeClosed == fac.use_inotify /\ ~k.open

\* C33: after close() of a Native facade no later call invokes an operation
\* of the watcher or of its backend: wait sleeps in the poller for
\* min(max(0, timeout), current interval) and returns false, update_paths
\* only stores the paths, close does nothing, and overflowed reads false.
C33_NothingInvokedAfterClose ==
    [][FacadeClosed =>
          /\ ~Overflowed(World)
          /\ (last'.op \in {"wait", "update_paths", "close"}) =>
                /\ last'.calls = {} /\ ~last'.raised
                /\ k' = k /\ iw' = iw /\ fs' = fs
                /\ ~Overflowed([fac |-> fac', iw |-> iw'])
          /\ (last'.op = "wait") =>
                /\ last'.polled /\ ~last'.native /\ last'.ret = FALSE
                /\ last'.slept = Min(Max(0, last'.timeout), fac.poll.current)
                /\ fac' = [fac EXCEPT !.poll = fac'.poll]
          /\ (last'.op = "update_paths") =>
                fac' = [fac EXCEPT !.paths = NonEmpty(last'.arg)]
          /\ (last'.op = "close") => fac' = fac]_vars

\* a wait after the close() of a facade whose watcher had seen an overflow:
\* it slept in the poller
C33_Witness ==
    /\ FacadeClosed /\ ~fac.inotify /\ iw.overflowed
    /\ last.op = "wait" /\ last.polled /\ last.slept > 0 /\ last.calls = {}

(***************************************************************************)
(* One release per descriptor (SpecClose).                                 *)
(***************************************************************************)
\* C34: the descriptor of a backend is released at most once: close()
\* called on a watcher or on a backend whose inotify instance was released
\* before does not release the descriptor number again, so a file that the
\* process has opened under that number since stays open.
C34_DescriptorReleasedOnce ==
    [][(last'.op \in {"close_watcher", "close_backend"} /\ ~k.open) =>
           (~k'.open /\ k'.other = k.other)]_vars

(***************************************************************************)
(* Watches without an entry (SpecRefresh).                                 *)
(***************************************************************************)
\* C35: no watch leaks: in every state, whatever calls were made and also
\* after a call in which rm_watch failed, the descriptor of every watch that
\* is live in the kernel is a key of _wds.
C35_NoWatchLeak ==
    \A x \in k.watches : \E e \in iw.wds : e.wd = x.wd

(***************************************************************************)
(* Tracked directories under wait (SpecDirs).                              *)
(***************************************************************************)
\* watch_paths registered path p as a directory: p is tracked and _wds has
\* a "dir" entry on p itself, its kernel watch carrying the directory mask
RegisteredAsDir(p) ==
    /\ \E i \in 1..Len(iw.tracked_files) : iw.tracked_files[i] = p
    /\ \E e \in iw.wds : /\ e.kind = "dir" /\ e.path = p
                           /\ \E x \in k.watches : x.wd = e.wd /\ x.ino = p
                                                      /\ x.mask = DIR_MASK

\* C36: a wait call never gives a path that watch_paths registered as a
\* directory a "file" entry or the file mask: after the wait the path has
\* no "file" entry in _wds and its kernel watches carry the directory mask.
C36_DirectoryStaysDirectory ==
    [][(last'.op = "wait") =>
          \A p \in Dirs :
              RegisteredAsDir(p) =>
                  /\ ~\E e \in iw'.wds : e.kind = "file" /\ e.path = p
                  /\ \A x \in k'.watches : x.ino = p => x.mask = DIR_MASK]_vars

(***************************************************************************)
(* The overflow flag over time (Spec).                                     *)
(***************************************************************************)
\* C37: the watcher's overflow flag is sticky: no call sets it back to
\* false once a wait has set it; the facade's overflowed, once true, reads
\* true after every call that leaves the watcher held; and the watcher is
\* let go only by close() and by the demotion in a wait or an update_paths
\* whose watcher call raised.
C37_OverflowFlagSticky ==
    [][/\ iw.overflowed => iw'.overflowed
       /\ (Overflowed(World) /\ fac'.inotify) => Overflowed([fac |-> fac', iw |-> iw'])
       /\ (fac.inotify /\ ~fac'.inotify) =>
              \/ last'.op = "close"
              \/ last'.op = "wait" /\ last'.nraised
              \/ last'.op = "update_paths" /\ last'.wp]_vars

\* update_paths ran watch_paths on a watcher that had seen an overflow, and
\* overflowed still reads true
C37_Witness ==
    /\ last.op = "update_paths" /\ last.native /\ ~last.wp
    /\ "add_watch" \in last.calls /\ "rm_watch" \in last.calls
    /\ hist.ovf /\ iw.overflowed /\ Overflowed(World)

====
